---- MODULE Spec2Model ----
(***************************************************************************)
(* FA Logistics catalog: the CSV ingestion pipeline of the main view       *)
(* (src/app.js) and of the staff view (src/staff.js), and of the main      *)
(* view the search, the filters, the badges, the cart and the loading of   *)
(* the feed, the last of the staff view too.                               *)
(*                                                                         *)
(* A JavaScript string is modelled as a sequence of characters; a          *)
(* character is a one-character TLA+ string, except the two non-ASCII      *)
(* glyphs of the feed, which are the tokens Naira and EmDash.              *)
(***************************************************************************)
EXTENDS Integers, Sequences, FiniteSets, TLC

VARIABLES
    priceStr,       \* argument of parsePriceValue
    priceValue,     \* <<>>, then <<[main, staff]>>: what the two parsePriceValue return
    rowFields,      \* the field contents an author writes into one row
    rowParsed,      \* <<>>, then <<r>>: what parseCSVRow returns for the row as written
    rawText,        \* a feed text handed to the row splitter
    rawRows,        \* the rows the splitter of parseCSV emits
    feed,           \* the authored feed: a header and data rows
    csvText,        \* the text of the feed, the argument of parseCSV
    mainProducts,   \* [called, list]: what parseCSV of app.js returns
    staffProducts,  \* [called, list]: what parseCSV of staff.js returns
    matchStr,       \* first argument of fuzzyMatch
    matchPattern,   \* second argument of fuzzyMatch
    matchScore,     \* <<>>, then <<w>>: what fuzzyMatch returns
    itemWords,      \* the words an author makes a product name of
    itemCategory,   \* <<>>, then <<c>>: what categorizeProduct returns for the name
    prioInput,      \* the argument of prioritizeProducts
    prioOutput,     \* <<>>, then <<list>>: what prioritizeProducts returns
    allProducts,    \* app.js allProducts
    filteredProducts, \* app.js filteredProducts
    searchInput,    \* the value of the search input
    activePill,     \* data-filter of the active filter pill, "" when none is
    activeCategory, \* data-category of the active category pill, "" when none is
    pillsShown,     \* the section of the category pills has the class show
    lastEvent,      \* the last handler that ran, and the local products it filtered
    badgeProduct,   \* <<>>, then <<p>>: the argument of getProductBadge
    badgeShown,     \* <<>>, then <<b>>: the badge getProductBadge returns
    cart,           \* app.js cart
    now,            \* Date.now(), in milliseconds from the opening of the page
    cartEvent,      \* the last cart function that ran, and what it was called with
    mainLoad,       \* the load sequence of the main view
    staffLoad       \* the load of the staff view

vars == <<priceStr, priceValue, rowFields, rowParsed, rawText, rawRows,
          feed, csvText, mainProducts, staffProducts,
          matchStr, matchPattern, matchScore, itemWords, itemCategory,
          prioInput, prioOutput, allProducts, filteredProducts, searchInput,
          activePill, activeCategory, pillsShown, lastEvent,
          badgeProduct, badgeShown, cart, now, cartEvent, mainLoad, staffLoad>>

priceVars == <<priceStr, priceValue>>
rowVars   == <<rowFields, rowParsed>>
rawVars   == <<rawText, rawRows>>
feedVars  == <<feed, csvText, mainProducts, staffProducts>>
matchVars == <<matchStr, matchPattern, matchScore>>
itemVars  == <<itemWords, itemCategory>>
prioVars  == <<prioInput, prioOutput>>
browseVars == <<allProducts, filteredProducts, searchInput, activePill,
                activeCategory, pillsShown, lastEvent>>

badgeVars == <<badgeProduct, badgeShown>>
cartVars  == <<cart, now, cartEvent>>
loadVars  == <<mainLoad, staffLoad>>

\* the variables of the ingestion, those of the catalog view, and those of
\* the badges, the cart and the loading
ingestVars  == <<priceVars, rowVars, rawVars, feedVars>>
viewVars    == <<matchVars, itemVars, prioVars, browseVars>>
sessionVars == <<badgeVars, cartVars, loadVars>>

-----------------------------------------------------------------------------
(* Characters *)

Naira  == "NAIRA"      \* U+20A6, the currency glyph of the feed
EmDash == "EMDASH"     \* U+2014, EM_DASH of staff.js
Quote  == "\""
Comma  == ","
LF     == "\n"
CR     == "\r"
Space  == " "
Pipe   == "|"

DigitChars == <<"0", "1", "2", "3", "4", "5", "6", "7", "8", "9">>
HexChars   == DigitChars \o <<"a", "b", "c", "d", "e", "f">>
UpperChars == <<"A", "B", "C", "D", "E", "F", "G", "H", "I", "J", "K", "L", "M",
                "N", "O", "P", "Q", "R", "S", "T", "U", "V", "W", "X", "Y", "Z">>
LowerChars == <<"a", "b", "c", "d", "e", "f", "g", "h", "i", "j", "k", "l", "m",
                "n", "o", "p", "q", "r", "s", "t", "u", "v", "w", "x", "y", "z">>

Range(s) == {s[i] : i \in DOMAIN s}

\* String.prototype.toLowerCase, one character
LowerChar(c) ==
    IF \E i \in DOMAIN UpperChars : UpperChars[i] = c
    THEN LowerChars[CHOOSE i \in DOMAIN UpperChars : UpperChars[i] = c]
    ELSE c

\* String.prototype.toLowerCase
toLowerCase(s) == [i \in DOMAIN s |-> LowerChar(s[i])]

\* the white space of String.prototype.trim and of \s
IsSpace(c) == c \in {Space, LF, CR, "\t"}

\* the line terminators, which "." of a regular expression does not match
IsLineTerminator(c) == c \in {LF, CR}

IsDigit(c) == c \in Range(DigitChars)

\* s[a..b], empty when a > b
Slice(s, a, b) == IF a > b THEN <<>> ELSE SubSeq(s, a, b)

\* String.prototype.trim
trim(s) ==
    IF \A i \in DOMAIN s : IsSpace(s[i]) THEN <<>>
    ELSE LET a == CHOOSE i \in DOMAIN s :
                    ~IsSpace(s[i]) /\ \A j \in 1..(i - 1) : IsSpace(s[j])
             b == CHOOSE i \in DOMAIN s :
                    ~IsSpace(s[i]) /\ \A j \in (i + 1)..Len(s) : IsSpace(s[j])
         IN  SubSeq(s, a, b)

\* s.replace(/\n/g, ' ')
ReplaceNewlines(s) == [i \in DOMAIN s |-> IF s[i] = LF THEN Space ELSE s[i]]

\* s with every character in drop removed: s.replace(/[...]/g, '')
Strip(s, drop) == SelectSeq(s, LAMBDA c : c \notin drop)

-----------------------------------------------------------------------------
(* parseInt and the two parsePriceValue *)

\* the value of character c as a digit of the given radix, -1 when it is none
DigitOf(c, radix) ==
    LET lc == LowerChar(c)
    IN  IF \E i \in DOMAIN HexChars : HexChars[i] = lc /\ i <= radix
        THEN (CHOOSE i \in DOMAIN HexChars : HexChars[i] = lc) - 1
        ELSE -1

\* the number of leading characters of s that are digits of the radix
RECURSIVE DigitPrefixLen(_, _)
DigitPrefixLen(s, radix) ==
    IF s = <<>> \/ DigitOf(Head(s), radix) < 0 THEN 0
    ELSE 1 + DigitPrefixLen(Tail(s), radix)

\* the value of a sequence of digits of the radix
RECURSIVE DigitsValue(_, _)
DigitsValue(s, radix) ==
    IF s = <<>> THEN 0
    ELSE DigitsValue(SubSeq(s, 1, Len(s) - 1), radix) * radix + DigitOf(s[Len(s)], radix)

\* s without its leading white space
RECURSIVE TrimStart(_)
TrimStart(s) == IF s # <<>> /\ IsSpace(Head(s)) THEN TrimStart(Tail(s)) ELSE s

\* ECMAScript parseInt(string, radix); radix 0 stands for an absent radix.
\* Leading white space is skipped, a sign is read, "0x" selects radix 16 when
\* the radix is absent (or 16), and the longest prefix of digits is the value.
\* The result is <<v>> for the number v and <<>> for NaN.
parseInt(string, radix) ==
    LET s0     == TrimStart(string)
        neg    == s0 # <<>> /\ Head(s0) = "-"
        s1     == IF s0 # <<>> /\ Head(s0) \in {"-", "+"} THEN Tail(s0) ELSE s0
        hex    == radix \in {0, 16} /\ Len(s1) >= 2
                    /\ s1[1] = "0" /\ s1[2] \in {"x", "X"}
        r      == IF hex THEN 16 ELSE IF radix = 0 THEN 10 ELSE radix
        s2     == IF hex THEN SubSeq(s1, 3, Len(s1)) ELSE s1
        n      == DigitPrefixLen(s2, r)
        v      == DigitsValue(SubSeq(s2, 1, n), r)
    IN  IF n = 0 THEN <<>> ELSE IF neg THEN <<0 - v>> ELSE <<v>>

\* x || 0 for a result x of parseInt
OrZero(x) == IF x = <<>> THEN 0 ELSE x[1]

\* app.js: parseInt(priceStr.replace(/[Naira,]/g, '')) || 0
parsePriceValue(str) == OrZero(parseInt(Strip(str, {Naira, Comma}), 0))

\* staff.js: digits = String(priceStr || '').replace(/[^\d]/g, '');
\*           parseInt(digits, 10) || 0
staffParsePriceValue(str) ==
    LET digits == SelectSeq(str, IsDigit)
    IN  OrZero(parseInt(digits, 10))

-----------------------------------------------------------------------------
(* The row splitter of parseCSV (the same loop in app.js and staff.js) *)

\* row.trim() is truthy
NonBlank(row) == trim(row) # <<>>

\* rows.push(currentRow) under "if (currentRow.trim())"
PushRow(rows, currentRow) ==
    IF NonBlank(currentRow) THEN Append(rows, currentRow) ELSE rows

\* SplitStep with the quote state ignored at a line break
SplitStepIgnoringQuotes(text, i, st) ==
    LET char     == text[i]
        nextIsLF == i + 1 <= Len(text) /\ text[i + 1] = LF
    IN  IF st.skip THEN [st EXCEPT !.skip = FALSE]
        ELSE IF char = Quote
        THEN [st EXCEPT !.inQuotes = ~st.inQuotes,
                        !.currentRow = Append(st.currentRow, char)]
        ELSE IF char = LF
        THEN [st EXCEPT !.rows = PushRow(st.rows, st.currentRow),
                        !.currentRow = <<>>]
        ELSE IF char = CR /\ nextIsLF
        THEN [st EXCEPT !.rows = PushRow(st.rows, st.currentRow),
                        !.currentRow = <<>>,
                        !.skip = TRUE]
        ELSE [st EXCEPT !.currentRow = Append(st.currentRow, char)]

\* One iteration of the for loop over text, at index i. st holds the loop's
\* variables; st.skip is set when the iteration before has done i++ over the
\* line feed of a carriage-return+line-feed pair.
SplitStep(text, i, st) ==
    LET char     == text[i]
        nextIsLF == i + 1 <= Len(text) /\ text[i + 1] = LF
    IN  IF st.skip THEN [st EXCEPT !.skip = FALSE]
        ELSE IF char = Quote
        THEN [st EXCEPT !.inQuotes = ~st.inQuotes,
                        !.currentRow = Append(st.currentRow, char)]
        ELSE IF char = LF /\ ~st.inQuotes
        THEN [st EXCEPT !.rows = PushRow(st.rows, st.currentRow),
                        !.currentRow = <<>>]
        ELSE IF char = CR /\ nextIsLF /\ ~st.inQuotes
        THEN [st EXCEPT !.rows = PushRow(st.rows, st.currentRow),
                        !.currentRow = <<>>,
                        !.skip = TRUE]
        ELSE [st EXCEPT !.currentRow = Append(st.currentRow, char)]

\* The iterations lo..hi of the loop, in order. The range is halved, and the
\* first half is evaluated before the second is entered, only to keep the
\* evaluation shallow.
RECURSIVE SplitScan(_, _, _, _)
SplitScan(text, lo, hi, st) ==
    IF lo > hi THEN st
    ELSE IF lo = hi THEN SplitStep(text, lo, st)
    ELSE LET mid   == (lo + hi) \div 2
             first == SplitScan(text, lo, mid, st)
         IN  IF first.skip \in BOOLEAN
             THEN SplitScan(text, mid + 1, hi, first)
             ELSE first

\* the rows of a text: the loop, and the push after the loop
SplitRows(text) ==
    LET st == SplitScan(text, 1, Len(text),
                        [rows |-> <<>>, currentRow |-> <<>>,
                         inQuotes |-> FALSE, skip |-> FALSE])
    IN  PushRow(st.rows, st.currentRow)

-----------------------------------------------------------------------------
(* parseCSVRow (the same function in app.js and staff.js) *)

\* RowStep with the quote state ignored at a comma
RowStepIgnoringQuotes(row, j, st) ==
    LET char        == row[j]
        nextIsQuote == j + 1 <= Len(row) /\ row[j + 1] = Quote
    IN  IF st.skip THEN [st EXCEPT !.skip = FALSE]
        ELSE IF char = Quote /\ nextIsQuote
        THEN [st EXCEPT !.currentField = Append(st.currentField, Quote),
                        !.skip = TRUE]
        ELSE IF char = Quote
        THEN [st EXCEPT !.inQuotes = ~st.inQuotes]
        ELSE IF char = Comma
        THEN [st EXCEPT !.fields = Append(st.fields, trim(st.currentField)),
                        !.currentField = <<>>]
        ELSE [st EXCEPT !.currentField = Append(st.currentField, char)]

\* One iteration of the for loop over row, at index j. st holds the loop's
\* variables; st.skip is set when the iteration before has done j++ over the
\* second quote of a doubled quote.
RowStep(row, j, st) ==
    LET char        == row[j]
        nextIsQuote == j + 1 <= Len(row) /\ row[j + 1] = Quote
    IN  IF st.skip THEN [st EXCEPT !.skip = FALSE]
        ELSE IF char = Quote /\ nextIsQuote
        THEN [st EXCEPT !.currentField = Append(st.currentField, Quote),
                        !.skip = TRUE]
        ELSE IF char = Quote
        THEN [st EXCEPT !.inQuotes = ~st.inQuotes]
        ELSE IF char = Comma /\ ~st.inQuotes
        THEN [st EXCEPT !.fields = Append(st.fields, trim(st.currentField)),
                        !.currentField = <<>>]
        ELSE [st EXCEPT !.currentField = Append(st.currentField, char)]

\* the iterations lo..hi of the loop, in order (halved as in SplitScan)
RECURSIVE RowScan(_, _, _, _)
RowScan(row, lo, hi, st) ==
    IF lo > hi THEN st
    ELSE IF lo = hi THEN RowStep(row, lo, st)
    ELSE LET mid   == (lo + hi) \div 2
             first == RowScan(row, lo, mid, st)
         IN  IF first.skip \in BOOLEAN
             THEN RowScan(row, mid + 1, hi, first)
             ELSE first

\* parseCSVRow with the last field pushed only when it is not empty
parseCSVRowDroppingEmptyLast(row) ==
    LET st == RowScan(row, 1, Len(row),
                      [fields |-> <<>>, currentField |-> <<>>,
                       inQuotes |-> FALSE, skip |-> FALSE])
    IN  IF trim(st.currentField) = <<>> THEN st.fields
        ELSE Append(st.fields, trim(st.currentField))

\* the fields of a row: the loop, and the push after the loop
parseCSVRow(row) ==
    LET st == RowScan(row, 1, Len(row),
                      [fields |-> <<>>, currentField |-> <<>>,
                       inQuotes |-> FALSE, skip |-> FALSE])
    IN  Append(st.fields, trim(st.currentField))

\* f.replace(/^"(.*)"{1}$/, '$1').trim(): one layer of enclosing quotes is
\* removed when the text between them holds no line terminator
CleanField(f) ==
    IF Len(f) >= 2 /\ f[1] = Quote /\ f[Len(f)] = Quote
       /\ \A k \in 2..(Len(f) - 1) : ~IsLineTerminator(f[k])
    THEN trim(Slice(f, 2, Len(f) - 1))
    ELSE trim(f)

\* fields.map(f => ...)
CleanFields(fields) == [k \in DOMAIN fields |-> CleanField(fields[k])]

-----------------------------------------------------------------------------
(* parseVariants *)

\* variantsStr.split('|'): the parts between the separators, at least one
RECURSIVE SplitOn(_, _, _, _)
SplitOn(s, sep, parts, current) ==
    IF s = <<>> THEN Append(parts, current)
    ELSE IF Head(s) = sep THEN SplitOn(Tail(s), sep, Append(parts, current), <<>>)
    ELSE SplitOn(Tail(s), sep, parts, Append(current, Head(s)))

Split(s, sep) == SplitOn(s, sep, <<>>, <<>>)

\* the first index >= from of a character of p that is no white space, 0 if none:
\* where a greedy \s* that is followed by a non-space token has to stop
FirstNonSpace(p, from) ==
    IF \E k \in from..Len(p) : ~IsSpace(p[k])
    THEN CHOOSE k \in from..Len(p) :
            ~IsSpace(p[k]) /\ \A m \in from..(k - 1) : IsSpace(p[m])
    ELSE 0

\* [\d,]
IsPriceChar(c) == IsDigit(c) \/ c = Comma

\* the last index of the greedy run [\d,]+ that starts at from
PriceRunEnd(p, from) ==
    CHOOSE m \in from..Len(p) :
        /\ \A k \in from..m : IsPriceChar(p[k])
        /\ (m = Len(p) \/ ~IsPriceChar(p[m + 1]))

\* the last index of the greedy run .+ that starts at from
LineRunEnd(p, from) ==
    CHOOSE m \in from..Len(p) :
        /\ \A k \in from..m : ~IsLineTerminator(p[k])
        /\ (m = Len(p) \/ IsLineTerminator(p[m + 1]))

\* the index of the dash that follows (.+?) = p[s..e] and \s*, 0 if there is none
DashAfter(p, s, e) ==
    IF s <= e /\ (\A k \in s..e : ~IsLineTerminator(p[k]))
    THEN LET d == FirstNonSpace(p, e + 1)
         IN  IF d > 0 /\ p[d] = EmDash THEN d ELSE 0
    ELSE 0

\* app.js: where (Naira[\d,]+) starts after the dash at d and \s*, 0 if it does not match
MainPriceStart(p, d) ==
    LET n == FirstNonSpace(p, d + 1)
    IN  IF n > 0 /\ p[n] = Naira /\ n + 1 <= Len(p) /\ IsPriceChar(p[n + 1])
        THEN n ELSE 0

\* staff.js: where (.+) starts after the dash at d and a greedy, backtracking \s*
StaffPriceStart(p, d) ==
    LET w    == FirstNonSpace(p, d + 1)
        last == IF w > 0 THEN w ELSE Len(p)
        ok   == {k \in (d + 1)..last : ~IsLineTerminator(p[k])}
    IN  IF ok = {} THEN 0 ELSE CHOOSE k \in ok : \A m \in ok : m <= k

\* The leftmost, then shortest, (s, e) among the places ok where a pattern
\* matches: the regular expression is not anchored, and (.+?) is lazy.
\* <<>> if there is none.
LeftmostShortest(ok) ==
    IF ok = {} THEN <<>>
    ELSE <<CHOOSE se \in ok :
             \A o \in ok : se[1] < o[1] \/ (se[1] = o[1] /\ se[2] <= o[2])>>

\* where /(.+?)\s*EmDash\s*(Naira[\d,]+)/ of app.js matches in p
MainMatch(p) ==
    LeftmostShortest({se \in (1..Len(p)) \X (1..Len(p)) :
                        LET d == DashAfter(p, se[1], se[2])
                        IN  d > 0 /\ MainPriceStart(p, d) > 0})

\* where /(.+?)\s*EmDash\s*(.+)/ of staff.js matches in p
StaffMatch(p) ==
    LeftmostShortest({se \in (1..Len(p)) \X (1..Len(p)) :
                        LET d == DashAfter(p, se[1], se[2])
                        IN  d > 0 /\ StaffPriceStart(p, d) > 0})

\* app.js: part.match(/(.+?)\s*EmDash\s*(Naira[\d,]+)/) and the variant pushed
MainVariant(part) ==
    LET m == MainMatch(part)
    IN  IF m = <<>> THEN <<>>
        ELSE LET s  == m[1][1]
                 e  == m[1][2]
                 n  == MainPriceStart(part, DashAfter(part, s, e))
                 m2 == SubSeq(part, n, PriceRunEnd(part, n + 1))
             IN  <<[name       |-> trim(SubSeq(part, s, e)),
                    price      |-> trim(m2),
                    priceValue |-> parsePriceValue(m2)]>>

\* staff.js: part.match(new RegExp(`(.+?)\\s*${EM_DASH}\\s*(.+)`)) and the variant pushed
StaffVariant(part) ==
    LET m == StaffMatch(part)
    IN  IF m = <<>> THEN <<>>
        ELSE LET s  == m[1][1]
                 e  == m[1][2]
                 n  == StaffPriceStart(part, DashAfter(part, s, e))
                 m2 == SubSeq(part, n, LineRunEnd(part, n))
             IN  <<[name       |-> trim(SubSeq(part, s, e)),
                    price      |-> trim(m2),
                    priceValue |-> staffParsePriceValue(m2)]>>

\* the concatenation of a sequence of sequences
RECURSIVE Flatten(_)
Flatten(ss) == IF ss = <<>> THEN <<>> ELSE Head(ss) \o Flatten(Tail(ss))

\* parseVariants that stops at the first part that does not match
parseVariantsStoppingAtMismatch(variantsStr) ==
    IF trim(variantsStr) = <<>> THEN <<>>
    ELSE LET parts == Split(variantsStr, Pipe)
             vs    == [k \in DOMAIN parts |-> MainVariant(parts[k])]
             bad   == {k \in DOMAIN vs : vs[k] = <<>>}
             stop  == IF bad = {} THEN Len(vs)
                      ELSE (CHOOSE k \in bad : \A m \in bad : k <= m) - 1
         IN  Flatten(SubSeq(vs, 1, stop))

\* app.js parseVariants: the variants of the matching parts, in the parts' order
parseVariants(variantsStr) ==
    IF trim(variantsStr) = <<>> THEN <<>>
    ELSE LET parts == Split(variantsStr, Pipe)
         IN  Flatten([k \in DOMAIN parts |-> MainVariant(parts[k])])

\* staff.js parseVariants
staffParseVariants(variantsStr) ==
    IF trim(variantsStr) = <<>> THEN <<>>
    ELSE LET parts == Split(variantsStr, Pipe)
         IN  Flatten([k \in DOMAIN parts |-> StaffVariant(parts[k])])

-----------------------------------------------------------------------------
(* Text search in strings, and categorizeProduct *)

\* the characters of a string literal
Chars(s) == [i \in 1..Len(s) |-> SubSeq(s, i, i)]

\* sub stands in s from position i on (1-based)
OccursAt(s, sub, i) ==
    /\ i + Len(sub) - 1 <= Len(s)
    /\ \A j \in 1..Len(sub) : s[i + j - 1] = sub[j]

\* String.prototype.includes
includes(s, sub) == \E i \in 1..(Len(s) + 1) : OccursAt(s, sub, i)

\* keywords.some(kw => text.includes(kw))
IncludesSome(text, keywords) ==
    \E k \in DOMAIN keywords : includes(text, keywords[k])

\* the rules of categorizeProduct in source order: the category returned and
\* the alternatives of the pattern tested. An alternative is a literal, or
\* two literals with .* between them.
CategoryRules ==
    << [category |-> Chars("Jewelry"),
        alternatives |-> << <<Chars("ring")>>, <<Chars("necklace")>>,
            <<Chars("earring")>>, <<Chars("bracelet")>>, <<Chars("jewelry")>>,
            <<Chars("jewel")>> >>],
       [category |-> Chars("Teddy Bears"),
        alternatives |-> << <<Chars("teddy")>>, <<Chars("bear")>>,
            <<Chars("plush")>>, <<Chars("stuffed")>> >>],
       [category |-> Chars("Flowers"),
        alternatives |-> << <<Chars("rose")>>, <<Chars("flower")>>,
            <<Chars("bouquet")>>, <<Chars("soap flower")>> >>],
       [category |-> Chars("Gift Baskets"),
        alternatives |-> << <<Chars("gift basket")>>, <<Chars("gift box")>>,
            <<Chars("gift set")>>, <<Chars("gift hamper")>> >>],
       [category |-> Chars("Food"),
        alternatives |-> << <<Chars("pizza")>>, <<Chars("burger")>>,
            <<Chars("chicken")>>, <<Chars("sandwich")>>, <<Chars("pasta")>>,
            <<Chars("italian")>>, <<Chars("asian")>>, <<Chars("quesadilla")>>,
            <<Chars("pie")>>, <<Chars("sesame")>> >>],
       [category |-> Chars("Wine & Treats"),
        alternatives |-> << <<Chars("cake"), Chars("wine")>>,
            <<Chars("cake"), Chars("champagne")>>,
            <<Chars("wine"), Chars("cake")>>,
            <<Chars("wine"), Chars("roses")>> >>],
       [category |-> Chars("Custom Items"),
        alternatives |-> << <<Chars("custom")>>, <<Chars("personalized")>>,
            <<Chars("photo")>>, <<Chars("print")>>, <<Chars("mug")>>,
            <<Chars("blanket")>>, <<Chars("t-shirt")>>, <<Chars("hoodie")>>,
            <<Chars("card")>> >>],
       [category |-> Chars("Christmas"),
        alternatives |-> << <<Chars("christmas")>>, <<Chars("xmas")>>,
            <<Chars("santa")>>, <<Chars("tree")>> >>],
       [category |-> Chars("Watches"),
        alternatives |-> << <<Chars("watch")>>, <<Chars("wristwatch")>> >>],
       [category |-> Chars("Car Keys"),
        alternatives |-> << <<Chars("key fob")>>, <<Chars("remote")>>,
            <<Chars("tesla")>>, <<Chars("bmw")>>, <<Chars("mercedes")>> >>],
       [category |-> Chars("Military"),
        alternatives |-> << <<Chars("military")>>, <<Chars("army")>>,
            <<Chars("camo")>>, <<Chars("uniform")>> >>],
       [category |-> Chars("Underwear"),
        alternatives |-> << <<Chars("underwear")>>, <<Chars("boxer")>>,
            <<Chars("brief")>> >>],
       [category |-> Chars("Wine & Treats"),
        alternatives |-> << <<Chars("wine")>>, <<Chars("chocolate")>>,
            <<Chars("ferrero")>>, <<Chars("champagne")>> >>] >>

\* the category returned when no rule matches
OtherCategory == Chars("Other")

\* one alternative of a pattern found in n: the literal, or the first literal
\* and later the second with no line terminator between them (the . of .*)
TestAlternative(n, alt) ==
    IF Len(alt) = 1 THEN includes(n, alt[1])
    ELSE \E i \in 1..(Len(n) + 1) : \E j \in 1..(Len(n) + 1) :
             /\ OccursAt(n, alt[1], i)
             /\ j >= i + Len(alt[1])
             /\ OccursAt(n, alt[2], j)
             /\ \A k \in (i + Len(alt[1]))..(j - 1) : ~IsLineTerminator(n[k])

\* /a|b|c/i.test(n) for the pattern of a rule
TestRule(n, rule) ==
    \E a \in DOMAIN rule.alternatives : TestAlternative(n, rule.alternatives[a])

\* the rules whose pattern is found in n
RulesFound(n) == {r \in DOMAIN CategoryRules : TestRule(n, CategoryRules[r])}

\* the last rule found wins, instead of the first
categorizeProductLastRuleWins(name) ==
    LET found == RulesFound(toLowerCase(name))
    IN  IF found = {} THEN OtherCategory
        ELSE CategoryRules[CHOOSE r \in found : \A q \in found : q <= r].category

\* categorizeProduct: the if statements in order, the first that tests true returns
categorizeProduct(name) ==
    LET found == RulesFound(toLowerCase(name))
    IN  IF found = {} THEN OtherCategory
        ELSE CategoryRules[CHOOSE r \in found : \A q \in found : r <= q].category

-----------------------------------------------------------------------------
(* parseCSV: the record builder *)

SameDayText == <<"s", "a", "m", "e", "d", "a", "y">>
TrueText    == <<"t", "r", "u", "e">>
NoDescription ==
    <<"N", "o", " ", "d", "e", "s", "c", "r", "i", "p", "t", "i", "o", "n">>

\* headerFields.findIndex(h => h.toLowerCase().trim() === 'sameday'), 0-based, -1 if none
SameDayColIdx(headerFields) ==
    LET hit == {k \in DOMAIN headerFields :
                  trim(toLowerCase(headerFields[k])) = SameDayText}
    IN  IF hit = {} THEN -1 ELSE (CHOOSE k \in hit : \A m \in hit : k <= m) - 1

\* the header row of the rows, rows[0] || ''
HeaderFields(rows) == parseCSVRow(IF rows = <<>> THEN <<>> ELSE rows[1])

\* element k (1-based) of the destructured cleanFields; an absent element is
\* undefined, which every use treats as the empty string
Field(cleanFields, k) == IF k \in DOMAIN cleanFields THEN cleanFields[k] ELSE <<>>

\* v put into a list sorted by priceValue, after the elements that are not greater
RECURSIVE InsertByPrice(_, _)
InsertByPrice(sorted, v) ==
    IF sorted = <<>> THEN <<v>>
    ELSE IF Head(sorted).priceValue <= v.priceValue
    THEN <<Head(sorted)>> \o InsertByPrice(Tail(sorted), v)
    ELSE <<v>> \o sorted

\* the sort left out: the variants in source order
SortByPriceLeftOut(variants) == variants

\* [...variants].sort((a, b) => a.priceValue - b.priceValue): a stable sort of a copy
RECURSIVE SortByPrice(_)
SortByPrice(variants) ==
    IF variants = <<>> THEN <<>>
    ELSE InsertByPrice(SortByPrice(SubSeq(variants, 1, Len(variants) - 1)),
                       variants[Len(variants)])

\* displayPrice and displayPriceValue of a row: the row's own price and its
\* value, replaced by those of the first of the variants sorted by priceValue
\* when the row has no price of its own
DisplayPrice(displayPrice, displayPriceValue, variants) ==
    IF displayPrice = <<>> /\ Len(variants) > 0
    THEN LET sorted == SortByPrice(variants)
         IN  [price |-> sorted[1].price, priceValue |-> sorted[1].priceValue]
    ELSE [price |-> displayPrice, priceValue |-> displayPriceValue]

\* isSameDay guessed from any field that reads "true"
IsSameDayGuessed(cleanFields, sameDayColIdx) ==
    \E k \in DOMAIN cleanFields : toLowerCase(cleanFields[k]) = TrueText

\* isSameDay of a row
IsSameDay(cleanFields, sameDayColIdx) ==
    /\ sameDayColIdx >= 0
    /\ Field(cleanFields, sameDayColIdx + 1) # <<>>
    /\ toLowerCase(Field(cleanFields, sameDayColIdx + 1)) = TrueText

\* app.js: the body of the loop over the rows for one row: <<>> when the row
\* is skipped, else the product pushed, with the id given. The record leaves
\* out emoji, a glyph that getProductEmoji computes from the name alone and
\* that only the rendering reads.
MainProduct(row, sameDayColIdx, productId) ==
    LET cleanFields == CleanFields(parseCSVRow(row))
    IN  IF ~(Len(cleanFields) >= 2 /\ cleanFields[1] # <<>>) THEN <<>>
        ELSE LET name        == Field(cleanFields, 2)
                 description == Field(cleanFields, 3)
                 variants    == parseVariants(Field(cleanFields, 5))
                 finalPrice  == trim(Field(cleanFields, 4))
                 display     == DisplayPrice(finalPrice, parsePriceValue(finalPrice),
                                             variants)
             IN  IF display.price = <<>> THEN <<>>
                 ELSE <<[id          |-> productId,
                         productId   |-> cleanFields[1],
                         name        |-> trim(ReplaceNewlines(name)),
                         description |-> IF description # NoDescription
                                         THEN trim(ReplaceNewlines(description))
                                         ELSE <<>>,
                         price       |-> display.price,
                         priceValue  |-> display.priceValue,
                         variants    |-> variants,
                         category    |-> categorizeProduct(name),
                         imageUrl    |-> Field(cleanFields, 6),
                         sameDay     |-> IsSameDay(cleanFields, sameDayColIdx)]>>

\* staff.js: the same for the staff view, whose products carry no id
StaffProduct(row, sameDayColIdx) ==
    LET cleanFields == CleanFields(parseCSVRow(row))
    IN  IF ~(Len(cleanFields) >= 2 /\ cleanFields[1] # <<>>) THEN <<>>
        ELSE LET name        == Field(cleanFields, 2)
                 description == Field(cleanFields, 3)
                 variants    == staffParseVariants(Field(cleanFields, 5))
                 finalPrice  == trim(Field(cleanFields, 4))
                 display     == DisplayPrice(finalPrice,
                                             staffParsePriceValue(finalPrice),
                                             variants)
             IN  IF display.price = <<>> THEN <<>>
                 ELSE <<[productId   |-> cleanFields[1],
                         name        |-> trim(ReplaceNewlines(name)),
                         description |-> trim(ReplaceNewlines(description)),
                         price       |-> display.price,
                         priceValue  |-> display.priceValue,
                         variants    |-> variants,
                         imageUrl    |-> Field(cleanFields, 6),
                         sameDay     |-> IsSameDay(cleanFields, sameDayColIdx)]>>

\* the loop over the rows ended (break) by the first row that is skipped
RECURSIVE MainRowsEndingAtSkipped(_, _, _, _, _)
MainRowsEndingAtSkipped(rows, rowIndex, sameDayColIdx, products, productId) ==
    IF rowIndex > Len(rows) THEN products
    ELSE LET pushed == MainProduct(rows[rowIndex], sameDayColIdx, productId)
         IN  IF pushed = <<>> THEN products
             ELSE MainRowsEndingAtSkipped(rows, rowIndex + 1, sameDayColIdx,
                                          products \o pushed, productId + 1)

\* the loop over the rows that gives a product the number of its row as id
RECURSIVE MainRowsNumberedByRow(_, _, _, _, _)
MainRowsNumberedByRow(rows, rowIndex, sameDayColIdx, products, productId) ==
    IF rowIndex > Len(rows) THEN products
    ELSE LET pushed == MainProduct(rows[rowIndex], sameDayColIdx, rowIndex - 1)
         IN  MainRowsNumberedByRow(rows, rowIndex + 1, sameDayColIdx,
                                   products \o pushed, productId)

\* app.js: for (rowIndex = 1; ...) over the rows after the header; rowIndex is 1-based here
RECURSIVE MainRows(_, _, _, _, _)
MainRows(rows, rowIndex, sameDayColIdx, products, productId) ==
    IF rowIndex > Len(rows) THEN products
    ELSE LET pushed == MainProduct(rows[rowIndex], sameDayColIdx, productId)
         IN  MainRows(rows, rowIndex + 1, sameDayColIdx, products \o pushed,
                      productId + Len(pushed))

RECURSIVE StaffRows(_, _, _, _)
StaffRows(rows, rowIndex, sameDayColIdx, products) ==
    IF rowIndex > Len(rows) THEN products
    ELSE StaffRows(rows, rowIndex + 1, sameDayColIdx,
                   products \o StaffProduct(rows[rowIndex], sameDayColIdx))

\* app.js parseCSV
parseCSV(text) ==
    LET rows == SplitRows(text)
    IN  MainRows(rows, 2, SameDayColIdx(HeaderFields(rows)), <<>>, 1)

\* staff.js parseCSV
staffParseCSV(text) ==
    LET rows == SplitRows(text)
    IN  StaffRows(rows, 2, SameDayColIdx(HeaderFields(rows)), <<>>)

-----------------------------------------------------------------------------
(* fuzzyMatch and performSearch *)

\* words.some(word => word.startsWith(pattern)) for words = s.split(/\s+/):
\* a word starts where a character that is no white space follows white
\* space or the start of s, and holds no white space; the split of any s has
\* a word (an empty one if need be), which the empty pattern starts
SomeWordStartsWith(s, pattern) ==
    \/ pattern = <<>>
    \/ \E i \in DOMAIN s :
         /\ i = 1 \/ IsSpace(s[i - 1])
         /\ OccursAt(s, pattern, i)
         /\ \A j \in DOMAIN pattern : ~IsSpace(pattern[j])

\* the loop of fuzzyMatch from position i of s on: the value of patternIdx
\* at its end (0-based, as in the source)
RECURSIVE SubsequenceScan(_, _, _, _)
SubsequenceScan(s, pattern, i, patternIdx) ==
    IF ~(i <= Len(s) /\ patternIdx < Len(pattern)) THEN patternIdx
    ELSE SubsequenceScan(s, pattern, i + 1,
                         IF s[i] = pattern[patternIdx + 1] THEN patternIdx + 1
                         ELSE patternIdx)

\* The weights of fuzzyMatch are 2, 1.5, 0.5 and 0: a weight is held as its
\* count of halves, 4, 3, 1 and 0.

\* fuzzyMatch with the test of the words put before the test of the substring
fuzzyMatchWordsFirst(str, pattern) ==
    LET strLower     == toLowerCase(str)
        patternLower == toLowerCase(pattern)
    IN  IF SomeWordStartsWith(strLower, patternLower) THEN 3
        ELSE IF includes(strLower, patternLower) THEN 4
        ELSE IF Len(patternLower) >= 4 THEN 0
        ELSE IF SubsequenceScan(strLower, patternLower, 1, 0) = Len(patternLower)
        THEN 1
        ELSE 0

\* fuzzyMatch without the cut-off for patterns of 4 characters and more
fuzzyMatchWithoutCutOff(str, pattern) ==
    LET strLower     == toLowerCase(str)
        patternLower == toLowerCase(pattern)
    IN  IF includes(strLower, patternLower) THEN 4
        ELSE IF SomeWordStartsWith(strLower, patternLower) THEN 3
        ELSE IF SubsequenceScan(strLower, patternLower, 1, 0) = Len(patternLower)
        THEN 1
        ELSE 0

\* fuzzyMatch that gives the weight 2 to a field that is the pattern, and
\* not to every field that contains it
fuzzyMatchWholeField(str, pattern) ==
    LET strLower     == toLowerCase(str)
        patternLower == toLowerCase(pattern)
    IN  IF strLower = patternLower THEN 4
        ELSE IF SomeWordStartsWith(strLower, patternLower) THEN 3
        ELSE IF Len(patternLower) >= 4 THEN 0
        ELSE IF SubsequenceScan(strLower, patternLower, 1, 0) = Len(patternLower)
        THEN 1
        ELSE 0

\* fuzzyMatch
fuzzyMatch(str, pattern) ==
    LET strLower     == toLowerCase(str)
        patternLower == toLowerCase(pattern)
    IN  IF includes(strLower, patternLower) THEN 4
        ELSE IF SomeWordStartsWith(strLower, patternLower) THEN 3
        ELSE IF Len(patternLower) >= 4 THEN 0
        ELSE IF SubsequenceScan(strLower, patternLower, 1, 0) = Len(patternLower)
        THEN 1
        ELSE 0

\* A score is a JavaScript number, an IEEE 754 double. The doubles of the
\* score arithmetic are 0 and values from 1/8 up to 16, all of them whole
\* counts of units of 2^-55; a double is held as that count in two limbs,
\* units = hi * Limb + lo with 0 <= lo < Limb.
Limb == 2^28

\* carries of lo moved into hi
Carried(x) == [hi |-> x.hi + x.lo \div Limb, lo |-> x.lo % Limb]

\* the spacing of the doubles around x, in units: 1 below 1/4, 2 below 1/2,
\* 4 below 1, 8 below 2, and so on
RECURSIVE UlpFrom(_, _)
UlpFrom(u, x) == IF x.hi < u * 2^25 THEN u ELSE UlpFrom(2 * u, x)

\* the double nearest to the exact value x, ties to the even one
RoundToDouble(x) ==
    LET u    == UlpFrom(1, x)
        r    == x.lo % u
        down == x.lo - r
        even == (down \div u) % 2 = 0
        up   == 2 * r > u \/ (2 * r = u /\ ~even)
    IN  Carried([hi |-> x.hi, lo |-> IF up THEN down + u ELSE down])

\* the literals 0.7, 0.5 and 0.6 of performSearch: the doubles nearest to them
Double07 == [hi |-> 93952409, lo |-> 161061272]
Double05 == [hi |-> 2^26, lo |-> 0]
Double06 == [hi |-> 80530636, lo |-> 214748364]

\* a weight of fuzzyMatch as a double
Weight(halves) == [hi |-> halves * 2^26, lo |-> 0]

\* weight * factor in doubles, for a weight of fuzzyMatch
Times(halves, factor) ==
    LET hi2 == factor.hi * halves
        lo2 == factor.lo * halves
    IN  RoundToDouble(Carried([hi |-> hi2 \div 2,
                               lo |-> (hi2 % 2) * (Limb \div 2) + lo2 \div 2]))

\* a + b in doubles
Plus(a, b) == RoundToDouble(Carried([hi |-> a.hi + b.hi, lo |-> a.lo + b.lo]))

\* a > b and a > 0 for doubles
Greater(a, b) == a.hi > b.hi \/ (a.hi = b.hi /\ a.lo > b.lo)
Positive(a) == a.hi > 0 \/ a.lo > 0

\* .map(v => fuzzyMatch(v.name, searchTerm)).reduce((max, score) => Math.max(max, score), 0)
RECURSIVE MaxVariantScore(_, _, _)
MaxVariantScore(variants, searchTerm, max) ==
    IF variants = <<>> THEN max
    ELSE LET score == fuzzyMatch(Head(variants).name, searchTerm)
         IN  MaxVariantScore(Tail(variants), searchTerm,
                             IF score > max THEN score ELSE max)

\* the score performSearch gives a product
Score(product, searchTerm) ==
    LET nameScore     == Weight(fuzzyMatch(product.name, searchTerm))
        descScore     == Times(fuzzyMatch(product.description, searchTerm), Double07)
        categoryScore == Times(fuzzyMatch(product.category, searchTerm), Double05)
        variantsScore == Times(MaxVariantScore(product.variants, searchTerm, 0),
                               Double06)
    IN  Plus(Plus(Plus(nameScore, descScore), categoryScore), variantsScore)

\* item put into a list sorted by descending score, after the items whose
\* score is not smaller
RECURSIVE InsertByScore(_, _)
InsertByScore(sorted, item) ==
    IF sorted = <<>> THEN <<item>>
    ELSE IF Greater(item.score, Head(sorted).score)
    THEN <<item>> \o sorted
    ELSE <<Head(sorted)>> \o InsertByScore(Tail(sorted), item)

\* .sort((a, b) => b.score - a.score): a stable sort
RECURSIVE SortByScore(_)
SortByScore(items) ==
    IF items = <<>> THEN <<>>
    ELSE InsertByScore(SortByScore(SubSeq(items, 1, Len(items) - 1)),
                       items[Len(items)])

\* performSearch that leaves the score in the products it returns
performSearchKeepingScores(products, searchTerm) ==
    IF searchTerm = <<>> THEN products
    ELSE LET scored == [k \in DOMAIN products |->
                          [product |-> products[k],
                           score   |-> Score(products[k], searchTerm)]]
             sorted == SortByScore(SelectSeq(scored, LAMBDA item : Positive(item.score)))
         IN  [k \in DOMAIN sorted |->
                 [sorted[k].product EXCEPT !.priceValue = sorted[k].score.hi]]

\* performSearch: the list it assigns to filteredProducts
performSearch(products, searchTerm) ==
    IF searchTerm = <<>> THEN products
    ELSE LET scored == [k \in DOMAIN products |->
                          [product |-> products[k],
                           score   |-> Score(products[k], searchTerm)]]
             sorted == SortByScore(SelectSeq(scored, LAMBDA item : Positive(item.score)))
         IN  [k \in DOMAIN sorted |-> sorted[k].product]

-----------------------------------------------------------------------------
(* applyCurrentFilters and filterByCategory *)

\* the value of data-filter of the pill that opens the categories
CategoriesFilter == "categories"

\* document.querySelector('.filter-pill.active')?.dataset.filter || 'all',
\* where pill is the data-filter of the active pill, "" when no pill is active
ActiveFilter(pill) == IF pill = "" THEN "all" ELSE pill

\* a filter that takes the limits of the badges for the limits of the tags
FilterTestWithBadgeLimits(product, activeFilter) ==
    CASE activeFilter = "hot" ->
           product.category \in {Chars("Food"), Chars("Flowers"), Chars("Teddy Bears")}
      [] activeFilter = "under50k" -> product.priceValue < 50000
      [] activeFilter = "budget-friendly" ->
           product.priceValue > 0 /\ product.priceValue <= 60000
      [] activeFilter = "best-value" ->
           product.priceValue >= 50000 /\ product.priceValue <= 100000
      [] activeFilter = "under100k" ->
           product.priceValue > 0 /\ product.priceValue < 100000
      [] activeFilter = "same-day" -> product.sameDay = TRUE
      [] activeFilter = "premium" -> product.priceValue > 150000
      [] OTHER -> TRUE

\* the switch of applyCurrentFilters
FilterTest(product, activeFilter) ==
    CASE activeFilter = "hot" ->
           product.category \in {Chars("Food"), Chars("Flowers"), Chars("Teddy Bears")}
      [] activeFilter = "under50k" ->
           product.priceValue > 0 /\ product.priceValue < 50000
      [] activeFilter = "budget-friendly" ->
           product.priceValue > 0 /\ product.priceValue <= 60000
      [] activeFilter = "best-value" ->
           product.priceValue >= 50000 /\ product.priceValue <= 90000
      [] activeFilter = "under100k" ->
           product.priceValue > 0 /\ product.priceValue < 100000
      [] activeFilter = "same-day" -> product.sameDay = TRUE
      [] activeFilter = "premium" -> product.priceValue >= 120000
      [] OTHER -> TRUE

\* applyCurrentFilters from its local products on: the list it assigns to
\* filteredProducts
FilterProducts(products, activeFilter) ==
    IF activeFilter # "all"
    THEN SelectSeq(products, LAMBDA product : FilterTest(product, activeFilter))
    ELSE products

\* the local products of applyCurrentFilters
ProductsToFilter(all, filtered, searchTerm) ==
    IF searchTerm = <<>> THEN all ELSE filtered

\* the table categoryFilters
CategoryFilters ==
    "valentine" :> <<Chars("valentine"), Chars("love"), Chars("heart"),
                     Chars("romance"), Chars("rose"), Chars("cupid")>>
    @@ "birthday" :> <<Chars("birthday"), Chars("celebration"), Chars("party"),
                       Chars("gift"), Chars("cake")>>
    @@ "anniversary" :> <<Chars("anniversary"), Chars("wedding"),
                          Chars("engagement"), Chars("ring"), Chars("couple")>>
    @@ "holiday" :> <<Chars("christmas"), Chars("holiday"), Chars("santa"),
                      Chars("festive"), Chars("seasonal")>>
    @@ "jewelry" :> <<Chars("ring"), Chars("necklace"), Chars("bracelet"),
                      Chars("earring"), Chars("silver"), Chars("gold"),
                      Chars("jewelry"), Chars("pendant")>>
    @@ "watches" :> <<Chars("watch"), Chars("timepiece")>>
    @@ "plush" :> <<Chars("teddy"), Chars("bear"), Chars("plush"),
                    Chars("stuffed"), Chars("toy")>>
    @@ "home" :> <<Chars("mug"), Chars("basket"), Chars("cup"), Chars("home"),
                   Chars("decor")>>
    @@ "fashion" :> <<Chars("pants"), Chars("clothing"), Chars("apparel"),
                      Chars("fashion"), Chars("wear")>>
    @@ "beauty" :> <<Chars("beauty"), Chars("skincare"), Chars("cosmetic")>>
    @@ "for-her" :> <<Chars("women"), Chars("woman"), Chars("her"),
                      Chars("ladies"), Chars("female")>>
    @@ "for-him" :> <<Chars("men"), Chars("man"), Chars("male"), Chars("mens")>>
    @@ "couples" :> <<Chars("couple"), Chars("pair"), Chars("his and hers")>>
    @@ "trending" :> <<>>
    @@ "bundles" :> <<Chars("set"), Chars("bundle"), Chars("pack"),
                      Chars("collection")>>

\* categoryFilters[category] || []
CategoryKeywords(category) ==
    IF category \in DOMAIN CategoryFilters THEN CategoryFilters[category] ELSE <<>>

\* `${product.name} ${product.description}`.toLowerCase()
ProductText(product) ==
    toLowerCase(product.name \o <<Space>> \o product.description)

\* .slice(0, end)
SliceTo(list, end) == SubSeq(list, 1, IF Len(list) < end THEN Len(list) ELSE end)

\* filterByCategory without the .slice(0, 50) of trending
filterByCategoryUncapped(all, category) ==
    IF category = "trending"
    THEN SelectSeq(all, LAMBDA p : p.priceValue > 40000 /\ p.priceValue < 100000)
    ELSE SelectSeq(all, LAMBDA product :
                          IncludesSome(ProductText(product), CategoryKeywords(category)))

\* filterByCategory looking at the name alone
filterByCategoryOnName(all, category) ==
    IF category = "trending"
    THEN SliceTo(SelectSeq(all, LAMBDA p : p.priceValue > 40000 /\ p.priceValue < 100000),
                 50)
    ELSE SelectSeq(all, LAMBDA product :
                          IncludesSome(toLowerCase(product.name),
                                       CategoryKeywords(category)))

\* filterByCategory: the list it assigns to filteredProducts
filterByCategory(all, category) ==
    IF category = "trending"
    THEN SliceTo(SelectSeq(all, LAMBDA p : p.priceValue > 40000 /\ p.priceValue < 100000),
                 50)
    ELSE SelectSeq(all, LAMBDA product :
                          IncludesSome(ProductText(product), CategoryKeywords(category)))

-----------------------------------------------------------------------------
(* prioritizeProducts *)

FeaturedIds == <<Chars("PROD-1487"), Chars("PROD-1488")>>

PriorityKeywords ==
    <<Chars("flower"), Chars("rose"), Chars("bouquet"), Chars("pizza"),
      Chars("drink"), Chars("beverage"), Chars("chicken"), Chars("ring"),
      Chars("engagement"), Chars("wedding"), Chars("document"),
      Chars("certificate"), Chars("processing")>>

\* featuredMap.get(id): <<>> for undefined, else <<product>>, the product the
\* last set of the key left there
FeaturedGet(products, id) ==
    LET at == {k \in DOMAIN products : products[k].productId = id}
    IN  IF at = {} THEN <<>>
        ELSE <<products[CHOOSE k \in at : \A m \in at : m <= k]>>

\* featuredMap.has(product.productId)
FeaturedHas(products, product) ==
    \E f \in DOMAIN FeaturedIds :
        product.productId = FeaturedIds[f] /\ FeaturedGet(products, FeaturedIds[f]) # <<>>

\* the test that sends a product to priority
IsPriority(product) ==
    IncludesSome(toLowerCase(product.name \o <<Space>> \o product.description),
                 PriorityKeywords)

\* prioritizeProducts that splits the remaining products after 9 of them
prioritizeProductsSplitAtNine(products) ==
    LET remaining     == SelectSeq(products, LAMBDA p : ~FeaturedHas(products, p))
        priority      == SelectSeq(remaining, IsPriority)
        other         == SelectSeq(remaining, LAMBDA p : ~IsPriority(p))
        prioritized   == priority \o other
        firstFeatured == FeaturedGet(products, FeaturedIds[1])
        secondFeatured == FeaturedGet(products, FeaturedIds[2])
    IN  IF firstFeatured # <<>> /\ secondFeatured # <<>>
        THEN firstFeatured \o SliceTo(prioritized, 9) \o secondFeatured
             \o SubSeq(prioritized, 10, Len(prioritized))
        ELSE IF firstFeatured # <<>> THEN firstFeatured \o prioritized
        ELSE IF secondFeatured # <<>> THEN secondFeatured \o prioritized
        ELSE prioritized

\* prioritizeProducts that leaves the remaining products in their order
prioritizeProductsUnpartitioned(products) ==
    LET remaining     == SelectSeq(products, LAMBDA p : ~FeaturedHas(products, p))
        prioritized   == remaining
        firstFeatured == FeaturedGet(products, FeaturedIds[1])
        secondFeatured == FeaturedGet(products, FeaturedIds[2])
    IN  IF firstFeatured # <<>> /\ secondFeatured # <<>>
        THEN LET splitIndex == IF Len(prioritized) < 10 THEN Len(prioritized) ELSE 10
             IN  firstFeatured \o SubSeq(prioritized, 1, splitIndex)
                 \o secondFeatured
                 \o SubSeq(prioritized, splitIndex + 1, Len(prioritized))
        ELSE IF firstFeatured # <<>> THEN firstFeatured \o prioritized
        ELSE IF secondFeatured # <<>> THEN secondFeatured \o prioritized
        ELSE prioritized

\* prioritizeProducts
prioritizeProducts(products) ==
    LET remaining     == SelectSeq(products, LAMBDA p : ~FeaturedHas(products, p))
        priority      == SelectSeq(remaining, IsPriority)
        other         == SelectSeq(remaining, LAMBDA p : ~IsPriority(p))
        prioritized   == priority \o other
        firstFeatured == FeaturedGet(products, FeaturedIds[1])
        secondFeatured == FeaturedGet(products, FeaturedIds[2])
    IN  IF firstFeatured # <<>> /\ secondFeatured # <<>>
        THEN LET splitIndex == IF Len(prioritized) < 10 THEN Len(prioritized) ELSE 10
             IN  firstFeatured \o SubSeq(prioritized, 1, splitIndex)
                 \o secondFeatured
                 \o SubSeq(prioritized, splitIndex + 1, Len(prioritized))
        ELSE IF firstFeatured # <<>> THEN firstFeatured \o prioritized
        ELSE IF secondFeatured # <<>> THEN secondFeatured \o prioritized
        ELSE prioritized

-----------------------------------------------------------------------------
(* getProductBadge *)

\* The badge is the text of the element that getProductBadge returns, the
\* glyph before it left out; no element is the empty text.

\* getProductBadge that looks at the category first
getProductBadgeCategoryFirst(product) ==
    IF product.category = Chars("Food") THEN "Hot"
    ELSE IF product.priceValue < 50000 THEN "Budget-Friendly"
    ELSE IF product.priceValue >= 50000 /\ product.priceValue <= 100000
    THEN "Best Value"
    ELSE IF product.priceValue > 150000 THEN "Premium"
    ELSE ""

\* getProductBadge
getProductBadge(product) ==
    IF product.priceValue < 50000 THEN "Budget-Friendly"
    ELSE IF product.priceValue >= 50000 /\ product.priceValue <= 100000
    THEN "Best Value"
    ELSE IF product.priceValue > 150000 THEN "Premium"
    ELSE IF product.category = Chars("Food") THEN "Hot"
    ELSE ""

-----------------------------------------------------------------------------
(* The cart *)

\* A variant given to addToCart is <<>> for null, else <<v>>.

\* cart.findIndex(...) of addToCart, 0 when no item is found (-1 in the source)
RECURSIVE ExistingIdx(_, _, _, _)
ExistingIdx(items, product, variant, k) ==
    IF k > Len(items) THEN 0
    ELSE IF /\ items[k].product.id = product.id
            /\ \/ items[k].variant = <<>> /\ variant = <<>>
               \/ /\ items[k].variant # <<>> /\ variant # <<>>
                  /\ items[k].variant[1].name = variant[1].name
    THEN k
    ELSE ExistingIdx(items, product, variant, k + 1)

\* cart.find(i => i.id === cartItemId), as an index, 0 when no item is found
RECURSIVE FindItem(_, _, _)
FindItem(items, cartItemId, k) ==
    IF k > Len(items) THEN 0
    ELSE IF items[k].id = cartItemId THEN k
    ELSE FindItem(items, cartItemId, k + 1)

\* addToCart that pushes an item whatever the cart holds
addToCartAlwaysPushing(items, product, variant, dateNow) ==
    Append(items,
           [id         |-> dateNow,
            product    |-> product,
            variant    |-> variant,
            price      |-> IF variant # <<>> THEN variant[1].price ELSE product.price,
            priceValue |-> IF variant # <<>> THEN variant[1].priceValue
                           ELSE product.priceValue,
            qty        |-> 1])

\* addToCart: the cart it leaves, dateNow being what Date.now() returns
addToCart(items, product, variant, dateNow) ==
    LET existingIdx == ExistingIdx(items, product, variant, 1)
    IN  IF existingIdx >= 1
        THEN [items EXCEPT ![existingIdx].qty = @ + 1]
        ELSE Append(items,
                    [id         |-> dateNow,
                     product    |-> product,
                     variant    |-> variant,
                     price      |-> IF variant # <<>> THEN variant[1].price
                                    ELSE product.price,
                     priceValue |-> IF variant # <<>> THEN variant[1].priceValue
                                    ELSE product.priceValue,
                     qty        |-> 1])

\* removeFromCart
removeFromCart(items, cartItemId) ==
    SelectSeq(items, LAMBDA item : item.id # cartItemId)

\* updateQty
updateQty(items, cartItemId, delta) ==
    LET k == FindItem(items, cartItemId, 1)
    IN  IF k = 0 THEN items
        ELSE LET changed == [items EXCEPT ![k].qty = @ + delta]
             IN  IF changed[k].qty < 1 THEN removeFromCart(changed, cartItemId)
                 ELSE changed

\* clearCart
clearCart == <<>>

-----------------------------------------------------------------------------
(* loadProducts of the two views *)

MAX_RETRIES == 3

\* the milliseconds of back-off for each retry made so far
RetryDelayUnit == 2000

\* The load sequence of the main view:
\*   phase       "idle" before the page runs loadProducts(), "fetching" while
\*               loadProducts(retryCount) awaits, "waiting" while the timer of
\*               a retry runs, "loaded", or "error" when the error state shows
\*   retryCount  the argument of the running or scheduled loadProducts
\*   fetches, retries  the fetches made and the retries scheduled since
\*               loadProducts(0) was called
\*   delay       the delay of the running timer, 0 without one
\*   failure     why the last attempt failed, "none" if it did not
\*   trigger     the button Try Again shows
\*   sequences   the calls of loadProducts(0) made so far
\* The load of the staff view has a phase, "failed" for "error", and a trigger.

\* what stops an attempt: fetch rejects, the status is not ok, the body cannot
\* be read, or a step after it throws
Failures == {"network", "status", "body", "later"}

\* loadProducts(0), called when the page opens or by the button Try Again
StartLoad(load) ==
    [load EXCEPT !.phase = "fetching", !.retryCount = 0, !.fetches = 1,
                 !.retries = 0, !.delay = 0, !.failure = "none",
                 !.trigger = FALSE, !.sequences = @ + 1]

\* the catch block that schedules a retry after the last attempt allowed too
LoadCatchWithoutCeiling(load, failure) ==
    [load EXCEPT !.phase = "waiting", !.failure = failure,
                 !.retries = @ + 1,
                 !.delay = (load.retryCount + 1) * RetryDelayUnit]

\* the catch block of loadProducts of app.js
LoadCatch(load, failure) ==
    IF load.retryCount < MAX_RETRIES
    THEN [load EXCEPT !.phase = "waiting", !.failure = failure,
                      !.retries = @ + 1,
                      !.delay = (load.retryCount + 1) * RetryDelayUnit]
    ELSE [load EXCEPT !.phase = "error", !.failure = failure, !.trigger = TRUE]

\* the callback of setTimeout: loadProducts(retryCount + 1)
LoadRetry(load) ==
    [load EXCEPT !.phase = "fetching", !.retryCount = @ + 1,
                 !.fetches = @ + 1, !.delay = 0]

\* the try block of loadProducts run to its end
LoadDone(load) == [load EXCEPT !.phase = "loaded", !.failure = "none"]

\* the catch block of loadProducts of staff.js: the text 'Unable to load
\* products', and nothing to start the load again
StaffCatch(load) == [load EXCEPT !.phase = "failed"]

-----------------------------------------------------------------------------
(* The states in which a part of the model is not in use *)

PriceIdle == priceStr = <<>> /\ priceValue = <<>>
RowIdle   == rowFields = <<>> /\ rowParsed = <<>>
RawIdle   == rawText = <<>> /\ rawRows = <<>>
FeedIdle  == /\ feed = [header |-> [cells |-> <<>>, sameDayCol |-> 0], rows |-> <<>>]
             /\ csvText = <<>>
             /\ mainProducts = [called |-> FALSE, list |-> <<>>]
             /\ staffProducts = [called |-> FALSE, list |-> <<>>]
MatchIdle == matchStr = <<>> /\ matchPattern = <<>> /\ matchScore = <<>>
ItemIdle  == itemWords = <<>> /\ itemCategory = <<>>
PrioIdle  == prioInput = <<>> /\ prioOutput = <<>>

\* the page before the catalog is loaded: the pill of 'all' is the active one
NotLoaded == [kind |-> "none", products |-> <<>>]
BrowseIdle == /\ allProducts = <<>> /\ filteredProducts = <<>>
              /\ searchInput = <<>>
              /\ activePill = "all" /\ activeCategory = "" /\ pillsShown = FALSE
              /\ lastEvent = NotLoaded

BadgeIdle == badgeProduct = <<>> /\ badgeShown = <<>>

NoCartEvent == [kind |-> "none", product |-> 0, variant |-> <<>>,
                cartItemId |-> 0, delta |-> 0]
CartIdle == cart = <<>> /\ now = 0 /\ cartEvent = NoCartEvent

MainNotOpened ==
    [phase |-> "idle", retryCount |-> 0, fetches |-> 0, retries |-> 0,
     delay |-> 0, failure |-> "none", trigger |-> FALSE, sequences |-> 0]
StaffNotOpened == [phase |-> "idle", trigger |-> FALSE]
LoadIdle == mainLoad = MainNotOpened /\ staffLoad = StaffNotOpened

IngestIdle  == PriceIdle /\ RowIdle /\ RawIdle /\ FeedIdle
ViewIdle    == MatchIdle /\ ItemIdle /\ PrioIdle /\ BrowseIdle
SessionIdle == BadgeIdle /\ CartIdle /\ LoadIdle

-----------------------------------------------------------------------------
(* SpecPrice: parsePriceValue of the two views on price texts *)

\* the characters a price text is typed from
PriceAlphabet == {"0", "1", "2", Naira, Comma, "-", "f", "x"}

\* the price texts of the documented examples
PriceSeeds ==
    { <<>>,
      <<Naira, "1", "2", Comma, "5", "0", "0">>,
      <<"f", "r", "e", "e">> }

\* the longest price text typed character by character
MaxPriceLen == 4

PriceInit ==
    /\ priceStr \in PriceSeeds
    /\ priceValue = <<>>
    /\ RowIdle /\ RawIdle /\ FeedIdle /\ ViewIdle /\ SessionIdle

TypePriceChar ==
    /\ priceValue = <<>>
    /\ Len(priceStr) < MaxPriceLen
    /\ \E c \in PriceAlphabet : priceStr' = Append(priceStr, c)
    /\ UNCHANGED <<priceValue, rowVars, rawVars, feedVars, viewVars,
                   sessionVars>>

CallParsePriceValue ==
    /\ priceValue = <<>>
    /\ priceValue' = <<[main  |-> parsePriceValue(priceStr),
                        staff |-> staffParsePriceValue(priceStr)]>>
    /\ UNCHANGED <<priceStr, rowVars, rawVars, feedVars, viewVars,
                   sessionVars>>

PriceNext == TypePriceChar \/ CallParsePriceValue

SpecPrice == PriceInit /\ [][PriceNext]_vars

-----------------------------------------------------------------------------
(* Claims on parsePriceValue *)

RECURSIVE Pow10(_)
Pow10(n) == IF n = 0 THEN 1 ELSE 10 * Pow10(n - 1)

\* the decimal digit a digit character stands for
DecimalDigit(c) == CHOOSE d \in 0..9 : DigitChars[d + 1] = c

\* the base-10 integer formed by the digits of s, every other character removed
DigitsNumber(s) ==
    LET at == {i \in DOMAIN s : IsDigit(s[i])}
        After(i) == Cardinality({j \in at : j > i})
        Term[i \in DOMAIN s] == IF i \in at THEN DecimalDigit(s[i]) * Pow10(After(i)) ELSE 0
        Sum[i \in 0..Len(s)] == IF i = 0 THEN 0 ELSE Sum[i - 1] + Term[i]
    IN  Sum[Len(s)]

\* C3: parsePriceValue(s) is, in the main view and in the staff view, the
\* base-10 integer formed by the digits of s (0 when s has no digit).
C3_PriceIsDigitsNumber ==
    priceValue # <<>> =>
        /\ priceValue[1].main = DigitsNumber(priceStr)
        /\ priceValue[1].staff = DigitsNumber(priceStr)

\* The staff view's half of C3, which holds.
StaffPriceIsDigitsNumber ==
    priceValue # <<>> => priceValue[1].staff = DigitsNumber(priceStr)

\* The documented examples of C3, which both views compute as documented.
PriceExamples ==
    (priceValue # <<>> /\ priceStr \in PriceSeeds) =>
        /\ priceValue[1].main = priceValue[1].staff
        /\ priceValue[1].main = IF Len(priceStr) = 7 THEN 12500 ELSE 0

-----------------------------------------------------------------------------
(* SpecRaw: the row splitter of parseCSV on feed texts *)

\* the characters a feed text is typed from
RawAlphabet == {"a", Space, Quote, LF, CR}

\* the longest feed text given to the splitter
MaxRawLen == 5

RawInit ==
    /\ rawText = <<>>
    /\ rawRows = <<>>
    /\ PriceIdle /\ RowIdle /\ FeedIdle /\ ViewIdle /\ SessionIdle

TypeRawChar ==
    /\ rawRows = <<>>
    /\ Len(rawText) < MaxRawLen
    /\ \E c \in RawAlphabet : rawText' = Append(rawText, c)
    /\ UNCHANGED <<rawRows, priceVars, rowVars, feedVars, viewVars,
                   sessionVars>>

CallSplitRows ==
    /\ rawRows = <<>>
    /\ rawRows' = <<SplitRows(rawText)>>
    /\ UNCHANGED <<rawText, priceVars, rowVars, feedVars, viewVars,
                   sessionVars>>

RawNext == TypeRawChar \/ CallSplitRows

SpecRaw == RawInit /\ [][RawNext]_vars

-----------------------------------------------------------------------------
(* Claims on the row splitter *)

\* position i of t is outside quotes: an even number of quotes precedes it
OutsideQuotes(t, i) == Cardinality({j \in 1..(i - 1) : t[j] = Quote}) % 2 = 0

\* the positions of the line feeds that end a row
RowEnds(t) == {i \in DOMAIN t : t[i] = LF /\ OutsideQuotes(t, i)}

\* the content of the row that ends just before position e (a row end, or
\* Len(t) + 1): what follows the previous row end, without the carriage
\* return of a carriage-return+line-feed pair
RowBefore(t, e) ==
    LET prev  == {i \in RowEnds(t) : i < e}
        start == IF prev = {} THEN 1 ELSE (CHOOSE i \in prev : \A j \in prev : j <= i) + 1
        stop  == IF e <= Len(t) /\ e - 1 >= start /\ t[e - 1] = CR THEN e - 2 ELSE e - 1
    IN  Slice(t, start, stop)

\* the row ends of t and the end of t, in source order
RECURSIVE Ascending(_)
Ascending(S) ==
    IF S = {} THEN <<>>
    ELSE LET m == CHOOSE x \in S : \A y \in S : x <= y
         IN  <<m>> \o Ascending(S \ {m})

\* the rows the claim describes: the non-blank segments between row ends
ExpectedRows(t) ==
    LET ends == Ascending(RowEnds(t) \cup {Len(t) + 1})
        segs == [k \in DOMAIN ends |-> RowBefore(t, ends[k])]
    IN  SelectSeq(segs, LAMBDA r : \E i \in DOMAIN r : ~IsSpace(r[i]))

\* C6: the splitter ends a row at a line feed or carriage-return+line-feed
\* pair only outside quotes, keeps a newline met inside quotes in the row,
\* emits no empty or whitespace-only row, and keeps source order.
C6_RowsSplitOutsideQuotes ==
    rawRows # <<>> => rawRows[1] = ExpectedRows(rawText)

\* C6 witness: a text with a newline inside quotes and one outside has been split
C6_Witness ==
    /\ rawRows # <<>>
    /\ \E i, j \in DOMAIN rawText :
         /\ rawText[i] = LF /\ ~OutsideQuotes(rawText, i)
         /\ rawText[j] = LF /\ OutsideQuotes(rawText, j)
    /\ Len(rawRows[1]) = 2

-----------------------------------------------------------------------------
(* SpecRow: rows as an author writes them, split and parsed *)

\* A cell is [content, quoted]: the value the author means, and whether it is
\* written between double quotes (each quote of the content doubled) or as is.

\* the characters a cell's content is typed from
CellAlphabet == {"a", Space, Comma, Quote, LF, CR}

\* the most keystrokes of a row: one per character and one per cell started
MaxRowKeys == 4

RECURSIVE DoubleQuotes(_)
DoubleQuotes(s) ==
    IF s = <<>> THEN <<>>
    ELSE (IF Head(s) = Quote THEN <<Quote, Quote>> ELSE <<Head(s)>>)
         \o DoubleQuotes(Tail(s))

\* the text of a cell in the feed
Written(cell) ==
    IF cell.quoted THEN <<Quote>> \o DoubleQuotes(cell.content) \o <<Quote>>
    ELSE cell.content

\* Array.prototype.join: the texts with sep between them
RECURSIVE Join(_, _)
Join(texts, sep) ==
    IF texts = <<>> THEN <<>>
    ELSE IF Len(texts) = 1 THEN texts[1]
    ELSE texts[1] \o <<sep>> \o Join(Tail(texts), sep)

\* the text of a row of cells
RowText(cells) == Join([k \in DOMAIN cells |-> Written(cells[k])], Comma)

RowKeys(cells) ==
    LET Keys[k \in 0..Len(cells)] ==
            IF k = 0 THEN 0 ELSE Keys[k - 1] + 1 + Len(cells[k].content)
    IN  Keys[Len(cells)]

\* the feed the row under test is put in: a header row before it, a row after it
HeaderLine  == <<"h">>
TrailerLine == <<"t">>
FeedAround(row) == HeaderLine \o <<LF>> \o row \o <<LF>> \o TrailerLine

RowInit ==
    /\ rowFields = <<>>
    /\ rowParsed = <<>>
    /\ PriceIdle /\ RawIdle /\ FeedIdle /\ ViewIdle /\ SessionIdle

StartCell ==
    /\ rowParsed = <<>>
    /\ RowKeys(rowFields) < MaxRowKeys
    /\ \E q \in BOOLEAN :
         rowFields' = Append(rowFields, [content |-> <<>>, quoted |-> q])
    /\ UNCHANGED <<rowParsed, priceVars, rawVars, feedVars, viewVars,
                   sessionVars>>

TypeCellChar ==
    /\ rowParsed = <<>>
    /\ rowFields # <<>>
    /\ RowKeys(rowFields) < MaxRowKeys
    /\ \E c \in CellAlphabet :
         rowFields' = [rowFields EXCEPT ![Len(rowFields)].content = Append(@, c)]
    /\ UNCHANGED <<rowParsed, priceVars, rawVars, feedVars, viewVars,
                   sessionVars>>

\* parseCSVRow on the row's text, and the splitter followed by parseCSVRow on
\* the feed that holds the row. A row has at least one cell: the text of no
\* cell at all is the text of one empty cell.
CallParseCSVRow ==
    /\ rowParsed = <<>>
    /\ rowFields # <<>>
    /\ LET rows == SplitRows(FeedAround(RowText(rowFields)))
       IN  rowParsed' = <<[direct |-> parseCSVRow(RowText(rowFields)),
                           rows   |-> rows,
                           fields |-> [k \in DOMAIN rows |-> parseCSVRow(rows[k])]]>>
    /\ UNCHANGED <<rowFields, priceVars, rawVars, feedVars, viewVars,
                   sessionVars>>

RowNext == StartCell \/ TypeCellChar \/ CallParseCSVRow

SpecRow == RowInit /\ [][RowNext]_vars

-----------------------------------------------------------------------------
(* Claims on parseCSVRow *)

HasAny(s, chars) == \E i \in DOMAIN s : s[i] \in chars

\* a cell written as is that needs no quoting
PlainCell(cell) == ~cell.quoted /\ ~HasAny(cell.content, {Quote, Comma, LF, CR})

\* a row in which every cell that needs quoting is quoted
WellFormedRow(cells) == \A k \in DOMAIN cells : cells[k].quoted \/ PlainCell(cells[k])

Contents(cells) == [k \in DOMAIN cells |-> cells[k].content]
TrimmedContents(cells) == [k \in DOMAIN cells |-> trim(cells[k].content)]

\* C7 as stated: the fields of a row, none with a quote, a comma or a
\* newline, joined by commas, parse back to exactly the same sequence of fields.
C7_RoundTripExact ==
    (rowParsed # <<>> /\ \A k \in DOMAIN rowFields : PlainCell(rowFields[k]))
        => rowParsed[1].direct = Contents(rowFields)

\* C7 amended: the fields of a row, none with a quote, a comma or a newline,
\* joined by commas, parse back to the same number of fields, in the same
\* order, each trimmed of its surrounding white space.
C7_RoundTripTrimmed ==
    (rowParsed # <<>> /\ \A k \in DOMAIN rowFields : PlainCell(rowFields[k]))
        => rowParsed[1].direct = TrimmedContents(rowFields)

\* C7 witness: two plain fields, one with surrounding white space, parsed
C7_Witness ==
    /\ rowParsed # <<>>
    /\ Len(rowFields) = 2
    /\ \A k \in DOMAIN rowFields : PlainCell(rowFields[k])
    /\ rowFields[1].content = <<Space, "a">>
    /\ rowParsed[1].direct = <<<<"a">>, <<>>>>

\* C5: for every quoted field of a row, parseCSVRow returns the content
\* itself (compared after the trimming parseCSVRow gives every field): the
\* enclosing quotes are not in the value, and a doubled quote gives one quote.
C5_QuotedFieldContent ==
    (rowParsed # <<>> /\ WellFormedRow(rowFields))
        => \A k \in DOMAIN rowFields :
             rowFields[k].quoted =>
                /\ k \in DOMAIN rowParsed[1].direct
                /\ rowParsed[1].direct[k] = trim(rowFields[k].content)

\* C4: a value with commas or newlines and no quote, written between quotes
\* in a row of a feed, stays in one logical row and is returned by
\* parseCSVRow as one field equal to the value, up to trimming.
C4_QuotedValueUnsplit ==
    (rowParsed # <<>> /\ WellFormedRow(rowFields))
        => \A k \in DOMAIN rowFields :
             (/\ rowFields[k].quoted
              /\ HasAny(rowFields[k].content, {Comma, LF, CR})
              /\ ~HasAny(rowFields[k].content, {Quote}))
                => /\ rowParsed[1].rows = <<HeaderLine, RowText(rowFields), TrailerLine>>
                   /\ Len(rowParsed[1].fields[2]) = Len(rowFields)
                   /\ rowParsed[1].fields[2][k] = trim(rowFields[k].content)

\* C4 witness: a quoted value holding a comma and a line feed, after a plain
\* field, came back as the second field of the second row
C4_Witness ==
    /\ rowParsed # <<>>
    /\ Len(rowFields) = 2
    /\ PlainCell(rowFields[1])
    /\ rowFields[2] = [content |-> <<Comma, LF>>, quoted |-> TRUE]
    /\ Len(rowParsed[1].rows) = 3
    /\ rowParsed[1].fields[2] = <<<<>>, <<Comma>>>>

-----------------------------------------------------------------------------
(* SpecFeed: feeds as an author writes them, parsed by the two views *)

ProdId    == <<"P", "1">>
RoseName  == <<"R", "o", "s", "e">>
\* a description that holds a comma, and so is written between quotes
RedFresh  == <<"R", "e", "d", Comma, Space, "f", "r", "e", "s", "h">>
ImageFile == <<"r", ".", "j", "p", "g">>

N500    == <<Naira, "5", "0", "0">>
Minus5  == <<"-", "5">>
FreeTxt == <<"f", "r", "e", "e">>

\* An entry of a variant blob: its text, and what it means. main and staff
\* tell whether the entry has the shape the view's parseVariants accepts.
Entry(name, price, value, main) ==
    [text  |-> name \o <<Space, EmDash, Space>> \o price,
     name  |-> name, price |-> price, value |-> value,
     main  |-> main, staff |-> TRUE]

S2000   == Entry(<<"S">>, <<Naira, "2", Comma, "0", "0", "0">>, 2000, TRUE)
L1000   == Entry(<<"L">>, <<Naira, "1", Comma, "0", "0", "0">>, 1000, TRUE)
T1000   == Entry(<<"T">>, <<Naira, "1", "0", "0", "0">>, 1000, TRUE)
\* a price without the currency glyph: a variant for the staff view only
NoNaira == Entry(<<"X">>, <<"5", "0", "0">>, 500, FALSE)
\* an entry without a dash: a variant for neither view
BadEntry == [text |-> <<"b", "a", "d">>, name |-> <<>>, price |-> <<>>,
             value |-> 0, main |-> FALSE, staff |-> FALSE]

\* A data row as authored: what it means, and how many of its cells are written
Row(id, price, entries, sameday, ncells) ==
    [id |-> id, name |-> RoseName, desc |-> RedFresh, price |-> price,
     entries |-> entries, image |-> ImageFile, sameday |-> sameday,
     ncells |-> ncells]

RowSet ==
    { Row(ProdId, N500, <<>>, <<"t", "r", "u", "e">>, 7),
      Row(<<>>, N500, <<>>, <<"t", "r", "u", "e">>, 7),
      Row(ProdId, <<>>, <<>>, <<"t", "r", "u", "e">>, 7),
      Row(ProdId, <<>>, <<S2000, L1000>>, <<"T", "R", "U", "E">>, 7),
      Row(ProdId, N500, <<S2000, L1000>>, <<"f", "a", "l", "s", "e">>, 7),
      Row(ProdId, <<>>, <<L1000, BadEntry, S2000, T1000>>, <<>>, 7),
      Row(ProdId, <<>>, <<BadEntry>>, <<"t", "r", "u", "e">>, 7),
      Row(ProdId, <<>>, <<NoNaira>>, <<"t", "r", "u", "e">>, 7),
      Row(ProdId, Minus5, <<>>, <<"t", "r", "u", "e">>, 7),
      Row(ProdId, FreeTxt, <<>>, <<"y", "e", "s">>, 7),
      Row(ProdId, N500, <<>>, <<>>, 4),
      Row(ProdId, <<>>, <<>>, <<>>, 1) }

\* the header rows: without a same-day column, and with one as the 7th column
BaseHeader ==
    << <<"i", "d">>, <<"n", "a", "m", "e">>, <<"d", "e", "s", "c">>,
       <<"p", "r", "i", "c", "e">>, <<"v", "a", "r", "s">>, <<"i", "m", "g">> >>

Headers ==
    { [cells |-> BaseHeader, sameDayCol |-> 0],
      [cells |-> Append(BaseHeader, <<"s", "a", "m", "e", "d", "a", "y">>),
       sameDayCol |-> 7],
      [cells |-> Append(BaseHeader, <<"S", "a", "m", "e", "D", "a", "y">>),
       sameDayCol |-> 7] }

\* the most data rows of a feed
MaxFeedRows == 2

\* a cell as a CSV writer writes it: between quotes when the content needs it
Cell(content) ==
    [content |-> content, quoted |-> HasAny(content, {Comma, Quote, LF, CR})]

\* the cells of a data row
RowCells(r) ==
    LET blob == Join([k \in DOMAIN r.entries |-> r.entries[k].text], Pipe)
        all  == << Cell(r.id), Cell(r.name), Cell(r.desc), Cell(r.price),
                   Cell(blob), Cell(r.image), Cell(r.sameday) >>
    IN  SubSeq(all, 1, r.ncells)

\* the text of a feed: the header row and the data rows, one per line
FeedText(f) ==
    LET lines == <<Join(f.header.cells, Comma)>>
                 \o [k \in DOMAIN f.rows |-> RowText(RowCells(f.rows[k]))]
    IN  Join(lines, LF)

FeedInit ==
    /\ \E h \in Headers :
         /\ feed = [header |-> h, rows |-> <<>>]
         /\ csvText = FeedText([header |-> h, rows |-> <<>>])
    /\ mainProducts = [called |-> FALSE, list |-> <<>>]
    /\ staffProducts = [called |-> FALSE, list |-> <<>>]
    /\ PriceIdle /\ RowIdle /\ RawIdle /\ ViewIdle /\ SessionIdle

WriteRow ==
    /\ ~mainProducts.called /\ ~staffProducts.called
    /\ Len(feed.rows) < MaxFeedRows
    /\ \E r \in RowSet :
         /\ feed' = [feed EXCEPT !.rows = Append(@, r)]
         /\ csvText' = FeedText(feed')
    /\ UNCHANGED <<mainProducts, staffProducts, priceVars, rowVars, rawVars, viewVars,
                   sessionVars>>

\* app.js parseCSV(csvText)
CallParseCSV ==
    /\ ~mainProducts.called
    /\ mainProducts' = [called |-> TRUE, list |-> parseCSV(csvText)]
    /\ UNCHANGED <<feed, csvText, staffProducts, priceVars, rowVars, rawVars, viewVars,
                   sessionVars>>

\* staff.js parseCSV(csvText)
CallStaffParseCSV ==
    /\ ~staffProducts.called
    /\ staffProducts' = [called |-> TRUE, list |-> staffParseCSV(csvText)]
    /\ UNCHANGED <<feed, csvText, mainProducts, priceVars, rowVars, rawVars, viewVars,
                   sessionVars>>

FeedNext == WriteRow \/ CallParseCSV \/ CallStaffParseCSV

SpecFeed == FeedInit /\ [][FeedNext]_vars

-----------------------------------------------------------------------------
(* Claims on parseCSV. A row is judged by what its author wrote; every cell  *)
(* of these feeds is one the field parser reads back as written.             *)

\* the cells of a row that are written, the others being absent
PriceOf(r)   == IF r.ncells >= 4 THEN r.price ELSE <<>>
EntriesOf(r) == IF r.ncells >= 5 THEN r.entries ELSE <<>>
ImageOf(r)   == IF r.ncells >= 6 THEN r.image ELSE <<>>
SameDayOf(r) == IF r.ncells >= 7 THEN r.sameday ELSE <<>>

MainEntries(r)  == SelectSeq(EntriesOf(r), LAMBDA e : e.main)
StaffEntries(r) == SelectSeq(EntriesOf(r), LAMBDA e : e.staff)

\* the condition C1 gives for a row to yield a product
MainKeeps(r) ==
    r.ncells >= 2 /\ r.id # <<>> /\ (PriceOf(r) # <<>> \/ MainEntries(r) # <<>>)
StaffKeeps(r) ==
    r.ncells >= 2 /\ r.id # <<>> /\ (PriceOf(r) # <<>> \/ StaffEntries(r) # <<>>)

MainKept  == SelectSeq(feed.rows, MainKeeps)
StaffKept == SelectSeq(feed.rows, StaffKeeps)

\* product p is the product of row r as far as the row's own cells go
BuiltFrom(p, r) ==
    /\ p.productId = r.id
    /\ p.name = r.name
    /\ p.imageUrl = ImageOf(r)
    /\ p.price # <<>>
    /\ PriceOf(r) # <<>> => p.price = PriceOf(r)

\* C1: a product is emitted for a data row only if the row has at least 2
\* fields, a non-empty first field and a price of its own or a parsed
\* variant; the other rows are dropped, and a dropped row neither ends the
\* parsing nor changes the products of the rows around it.
C1_RowsKeptOrDropped ==
    /\ mainProducts.called =>
         /\ Len(mainProducts.list) = Len(MainKept)
         /\ \A i \in DOMAIN mainProducts.list :
              /\ i \in DOMAIN MainKept
              /\ BuiltFrom(mainProducts.list[i], MainKept[i])
              /\ mainProducts.list[i].description = MainKept[i].desc
    /\ staffProducts.called =>
         /\ Len(staffProducts.list) = Len(StaffKept)
         /\ \A i \in DOMAIN staffProducts.list :
              /\ i \in DOMAIN StaffKept
              /\ BuiltFrom(staffProducts.list[i], StaffKept[i])
              /\ staffProducts.list[i].description = StaffKept[i].desc

\* C1 witness: after a row with an empty first field, which was dropped, a
\* row priced by its variants gave the only product, in both views
C1_Witness ==
    /\ mainProducts.called /\ staffProducts.called
    /\ Len(feed.rows) = 2
    /\ feed.rows[1].id = <<>>
    /\ MainKeeps(feed.rows[2]) /\ PriceOf(feed.rows[2]) = <<>>
    /\ Len(mainProducts.list) = 1 /\ Len(staffProducts.list) = 1

\* C24: the internal ids of the products that the main view's parseCSV
\* returns are 1, 2, ..., n in list order, whatever the productId values are
\* and however many rows were dropped.
C24_IdsDense ==
    mainProducts.called =>
        \A i \in DOMAIN mainProducts.list : mainProducts.list[i].id = i

\* C24 witness: the first data row was dropped, and the product of the second
\* row, whose productId is P1, has the id 1
C24_Witness ==
    /\ mainProducts.called
    /\ Len(feed.rows) = 2
    /\ ~MainKeeps(feed.rows[1]) /\ MainKeeps(feed.rows[2])
    /\ Len(mainProducts.list) = 1
    /\ mainProducts.list[1].productId = ProdId
    /\ mainProducts.list[1].id = 1

\* C29: for every feed text the two parseCSV retain the same rows in the same
\* order and give each retained row the same productId, name, price,
\* priceValue, variants, imageUrl and sameDay; only the description differs,
\* which the main view empties when it is "No description".
C29_ViewsAgree ==
    (mainProducts.called /\ staffProducts.called) =>
        /\ Len(mainProducts.list) = Len(staffProducts.list)
        /\ \A i \in DOMAIN mainProducts.list : i \in DOMAIN staffProducts.list =>
             LET m == mainProducts.list[i]
                 s == staffProducts.list[i]
             IN  /\ m.productId = s.productId
                 /\ m.name = s.name
                 /\ m.price = s.price
                 /\ m.priceValue = s.priceValue
                 /\ m.variants = s.variants
                 /\ m.imageUrl = s.imageUrl
                 /\ m.sameDay = s.sameDay
                 /\ \/ m.description = s.description
                    \/ s.description = NoDescription /\ m.description = <<>>

\* C2: every product of parseCSV, and every variant of it, has a
\* non-negative integer priceValue, 0 when the price text is no number.
C2_PriceValueNonNegative ==
    mainProducts.called =>
        \A i \in DOMAIN mainProducts.list :
            LET p == mainProducts.list[i]
            IN  /\ p.priceValue \in Nat
                /\ \A k \in DOMAIN p.variants : p.variants[k].priceValue \in Nat
                /\ p.price = FreeTxt => p.priceValue = 0

\* the least of a non-empty set of numbers
Least(S) == CHOOSE x \in S : \A y \in S : x <= y

\* C8: a row without a price of its own and with parsed variants gets the
\* price and priceValue of a variant whose priceValue is the least of them.
C8_CheapestVariantPrice ==
    (mainProducts.called /\ Len(mainProducts.list) = Len(MainKept)) =>
        \A i \in DOMAIN MainKept :
            LET vs == MainEntries(MainKept[i])
                p  == mainProducts.list[i]
            IN  (PriceOf(MainKept[i]) = <<>> /\ vs # <<>>) =>
                    /\ p.priceValue = Least({vs[k].value : k \in DOMAIN vs})
                    /\ \E k \in DOMAIN vs :
                         vs[k].value = p.priceValue /\ vs[k].price = p.price

\* C8 witness: the row with variants S at 2,000 and L at 1,000 and no price
\* of its own gave a product priced 1,000
C8_Witness ==
    /\ mainProducts.called
    /\ Len(feed.rows) = 1
    /\ feed.rows[1].price = <<>> /\ feed.rows[1].entries = <<S2000, L1000>>
    /\ Len(mainProducts.list) = 1
    /\ mainProducts.list[1].price = <<Naira, "1", Comma, "0", "0", "0">>
    /\ mainProducts.list[1].priceValue = 1000

\* the variant an entry of the expected shape stands for
VariantOf(e) == [name |-> e.name, price |-> e.price, priceValue |-> e.value]

\* C9: the variants of a product are the entries of the blob that have the
\* shape "name - price", in the order of the blob; the other entries are
\* dropped one by one, and the order is not changed by the price fallback.
C9_VariantsInSourceOrder ==
    (mainProducts.called /\ Len(mainProducts.list) = Len(MainKept)) =>
        \A i \in DOMAIN MainKept :
            LET vs == MainEntries(MainKept[i])
            IN  mainProducts.list[i].variants = [k \in DOMAIN vs |-> VariantOf(vs[k])]

\* C9 witness: the blob L 1,000 | bad | S 2,000 | T 1000 of a row without
\* price gave the variants L, S, T in this order and the price of L
C9_Witness ==
    /\ mainProducts.called
    /\ Len(feed.rows) = 1
    /\ feed.rows[1].entries = <<L1000, BadEntry, S2000, T1000>>
    /\ Len(mainProducts.list) = 1
    /\ mainProducts.list[1].variants = <<VariantOf(L1000), VariantOf(S2000), VariantOf(T1000)>>
    /\ mainProducts.list[1].price = L1000.price

\* the texts that equal "true" case-insensitively, among those of the feeds
TrueTexts == {<<"t", "r", "u", "e">>, <<"T", "R", "U", "E">>}

\* C10: sameDay is true only if the header has a "sameday" column and the
\* row's value in it is "true" in any case; without such a column sameDay is
\* false for every product.
C10_SameDayOnlyFromColumn ==
    (mainProducts.called /\ Len(mainProducts.list) = Len(MainKept)) =>
        /\ \A i \in DOMAIN MainKept :
             mainProducts.list[i].sameDay =>
                /\ feed.header.sameDayCol = 7
                /\ SameDayOf(MainKept[i]) \in TrueTexts
        /\ feed.header.sameDayCol = 0 =>
             \A i \in DOMAIN MainKept : ~mainProducts.list[i].sameDay

\* C10 witness: under a header with the column, the value TRUE gave a
\* same-day product and the value false the other one
C10_Witness ==
    /\ mainProducts.called
    /\ feed.header.sameDayCol = 7
    /\ Len(mainProducts.list) = 2
    /\ feed.rows[1].sameday = <<"T", "R", "U", "E">>
    /\ mainProducts.list[1].sameDay
    /\ ~mainProducts.list[2].sameDay

-----------------------------------------------------------------------------
(* SpecMatch: fuzzyMatch on fields and queries *)

\* the characters a field and a query are typed from
StrAlphabet     == {"A", "b", Space}
PatternAlphabet == {"a", "B"}

RedRoseBouquet == Chars("Red Rose Bouquet")

\* the documented examples, and the empty field and query
MatchSeeds ==
    { [str |-> <<>>, pattern |-> <<>>],
      [str |-> RedRoseBouquet, pattern |-> Chars("rose")],
      [str |-> RedRoseBouquet, pattern |-> Chars("bou")],
      [str |-> RedRoseBouquet, pattern |-> Chars("red rose")],
      [str |-> Chars("xyz"), pattern |-> Chars("abcd")],
      [str |-> Chars("abc"), pattern |-> Chars("ac")] }

\* the longest field and the longest query typed character by character
MaxStrLen     == 5
MaxPatternLen == 4

MatchInit ==
    /\ \E seed \in MatchSeeds :
         matchStr = seed.str /\ matchPattern = seed.pattern
    /\ matchScore = <<>>
    /\ ItemIdle /\ PrioIdle /\ BrowseIdle /\ IngestIdle /\ SessionIdle

TypeStrChar ==
    /\ matchScore = <<>> /\ matchPattern = <<>>
    /\ Len(matchStr) < MaxStrLen
    /\ \E c \in StrAlphabet : matchStr' = Append(matchStr, c)
    /\ UNCHANGED <<matchPattern, matchScore, itemVars, prioVars, browseVars,
                   ingestVars, sessionVars>>

TypePatternChar ==
    /\ matchScore = <<>>
    /\ Len(matchPattern) < MaxPatternLen
    /\ \E c \in PatternAlphabet : matchPattern' = Append(matchPattern, c)
    /\ UNCHANGED <<matchStr, matchScore, itemVars, prioVars, browseVars,
                   ingestVars, sessionVars>>

CallFuzzyMatch ==
    /\ matchScore = <<>>
    /\ matchScore' = <<fuzzyMatch(matchStr, matchPattern)>>
    /\ UNCHANGED <<matchStr, matchPattern, itemVars, prioVars, browseVars,
                   ingestVars, sessionVars>>

MatchNext == TypeStrChar \/ TypePatternChar \/ CallFuzzyMatch

SpecMatch == MatchInit /\ [][MatchNext]_vars

-----------------------------------------------------------------------------
(* Claims on fuzzyMatch. Weights are counted in halves: 4 is 2, 3 is 1.5,   *)
(* 1 is 0.5.                                                                 *)

\* q is a substring of f
Occurs(q, f) ==
    \E i \in 0..(Len(f) - Len(q)) : \A j \in 1..Len(q) : f[i + j] = q[j]

\* the words of f: its longest stretches without white space, as <<first, last>>
WordsOf(f) ==
    {w \in (DOMAIN f) \X (DOMAIN f) :
        /\ w[1] <= w[2]
        /\ \A k \in w[1]..w[2] : ~IsSpace(f[k])
        /\ w[1] = 1 \/ IsSpace(f[w[1] - 1])
        /\ w[2] = Len(f) \/ IsSpace(f[w[2] + 1])}

\* some word of f starts with q
WordBegins(q, f) ==
    \E w \in WordsOf(f) :
        /\ Len(q) <= w[2] - w[1] + 1
        /\ \A j \in 1..Len(q) : f[w[1] + j - 1] = q[j]

\* the characters of q occur in f in order
InOrder(q, f) ==
    \E at \in [DOMAIN q -> DOMAIN f] :
        /\ \A j \in DOMAIN q : f[at[j]] = q[j]
        /\ \A j \in DOMAIN q : j > 1 => at[j - 1] < at[j]

\* the weight C11 gives for a field and a query
CascadeWeight(field, query) ==
    LET f == toLowerCase(field)
        q == toLowerCase(query)
    IN  IF Occurs(q, f) THEN 4
        ELSE IF WordBegins(q, f) THEN 3
        ELSE IF Len(q) >= 4 THEN 0
        ELSE IF InOrder(q, f) THEN 1
        ELSE 0

\* C11: fuzzyMatch, comparing without regard to case, returns 2 when the
\* field contains the query; otherwise 1.5 when a word of the field starts
\* with the query; otherwise 0 when the query has 4 characters or more;
\* otherwise 0.5 when the characters of the query occur in order in the
\* field, and 0 when they do not. For "Red Rose Bouquet" and "rose" it
\* returns 2, for "xyz" and "abcd" 0, for "abc" and "ac" 0.5.
C11_FuzzyMatchCascade ==
    matchScore # <<>> =>
        /\ matchScore[1] = CascadeWeight(matchStr, matchPattern)
        /\ (matchStr = RedRoseBouquet /\ matchPattern = Chars("rose"))
               => matchScore[1] = 4
        /\ (matchStr = Chars("xyz") /\ matchPattern = Chars("abcd"))
               => matchScore[1] = 0
        /\ (matchStr = Chars("abc") /\ matchPattern = Chars("ac"))
               => matchScore[1] = 1

\* C11 witness: a query of 4 characters whose characters occur in order in
\* the field, but not next to each other, was given the weight 0
C11_Witness ==
    /\ matchScore = <<0>>
    /\ Len(matchPattern) = 4
    /\ InOrder(toLowerCase(matchPattern), toLowerCase(matchStr))
    /\ ~Occurs(toLowerCase(matchPattern), toLowerCase(matchStr))

\* C12 as stated: fuzzyMatch("Red Rose Bouquet", "bou") is 1.5, the weight
\* of a word that starts with the query
C12_WordPrefixExample ==
    (matchStr = RedRoseBouquet /\ matchPattern = Chars("bou") /\ matchScore # <<>>)
        => matchScore[1] = 3

\* C12 amended: fuzzyMatch("Red Rose Bouquet", "bou") is 2, the weight of a
\* field that contains the query: the field contains "bou", and that is
\* tested before the words are
C12_SubstringExample ==
    (matchStr = RedRoseBouquet /\ matchPattern = Chars("bou") /\ matchScore # <<>>)
        => /\ matchScore[1] = 4
           /\ Occurs(Chars("bou"), toLowerCase(matchStr))
           /\ WordBegins(Chars("bou"), toLowerCase(matchStr))

\* C12 witness: fuzzyMatch has returned for "Red Rose Bouquet" and "bou"
C12_Witness ==
    matchStr = RedRoseBouquet /\ matchPattern = Chars("bou") /\ matchScore # <<>>

\* the fields and the queries that can be typed
TypedFields  == UNION { [1..n -> StrAlphabet] : n \in 0..MaxStrLen }
TypedQueries == UNION { [1..n -> PatternAlphabet] : n \in 0..MaxPatternLen }

\* nothing is typed yet
NothingTyped == matchStr = <<>> /\ matchPattern = <<>> /\ matchScore = <<>>

\* C26 as stated: fuzzyMatch returns one of the weights 0, 0.5, 1.5 and 2,
\* and each of the four is returned for a field and a query; stated of the
\* fields and queries that can be typed, where nothing is typed yet.
C26_EveryWeightReturned ==
    /\ matchScore # <<>> => matchScore[1] \in {0, 1, 3, 4}
    /\ NothingTyped =>
         \A w \in {0, 1, 3, 4} :
             \E f \in TypedFields : \E q \in TypedQueries : fuzzyMatch(f, q) = w

\* C26 amended: fuzzyMatch returns one of the weights 0, 0.5 and 2, and each
\* of the three is returned for a field and a query; 1.5 is never returned,
\* since a field one of whose words starts with the query contains the query
\* and is given the weight 2.
C26_ThreeWeightsReturned ==
    /\ matchScore # <<>> =>
         /\ matchScore[1] \in {0, 1, 4}
         /\ WordBegins(toLowerCase(matchPattern), toLowerCase(matchStr))
                => matchScore[1] = 4
    /\ NothingTyped =>
         \A w \in {0, 1, 4} :
             \E f \in TypedFields : \E q \in TypedQueries : fuzzyMatch(f, q) = w

\* C26 witness: a typed field whose second word starts with the query of two
\* characters or more, without being it, was given the weight 2
C26_Witness ==
    /\ matchScore = <<4>>
    /\ Len(matchPattern) >= 2 /\ Len(matchStr) <= MaxStrLen
    /\ \E k \in DOMAIN matchStr :
         /\ k > 1 /\ matchStr[k - 1] = Space
         /\ k + Len(matchPattern) <= Len(matchStr)
         /\ ~IsSpace(matchStr[k + Len(matchPattern)])
         /\ \A j \in DOMAIN matchPattern :
                LowerChar(matchStr[k + j - 1]) = LowerChar(matchPattern[j])

-----------------------------------------------------------------------------
(* SpecBrowse: the catalog loaded from a feed, then searched and filtered    *)
(* from the page. The page is opened without parameters in its address, so  *)
(* restoreFiltersFromURL finds nothing to restore.                           *)

\* a data row of a catalog feed as authored, all its cells written
Item(id, name, desc, price, entries, sameday) ==
    [id |-> Chars(id), name |-> Chars(name), desc |-> Chars(desc),
     price |-> price, entries |-> entries, image |-> ImageFile,
     sameday |-> Chars(sameday), ncells |-> 7]

Price(digits) == <<Naira>> \o Chars(digits)

\* two products that a search for "or" finds, by the description of the
\* first, and by the name, description, category and variant of the second
TiesCatalog ==
    << Item("P1", "Ring", "or", Price("30,000"), <<>>, "true"),
       Item("P2", "o-r", "o r", <<>>,
            <<Entry(Chars("o.r"), Price("130,000"), 130000, TRUE)>>, "") >>

\* products on both sides of the limits of the filter tags
ShopCatalog ==
    << Item("S1", "Teddy Bear", "Plush toy", Price("90,000"), <<>>, "TRUE"),
       Item("S2", "Rose Bouquet", "Red, fresh", Price("50,000"), <<>>, "true"),
       Item("S3", "Gold Watch", "", Price("100,000"), <<>>, ""),
       Item("S4", "Pizza", "", Price("60,000"), <<>>, "no"),
       Item("S5", "Mug", "Gift set", Price("120,000"), <<>>, ""),
       Item("S6", "Voucher", "", Chars("free"), <<>>, "true"),
       Item("S7", "Refund", "", Chars("-5"), <<>>, ""),
       Item("S8", "Wine and Roses", "", Price("49,999"), <<>>, "") >>

\* the number of products of the long catalog
LongCatalogSize == 52

\* products B01, B02, ... of one price inside the band of trending
LongCatalog ==
    [k \in 1..LongCatalogSize |->
        Item("B", "Box", "", Price("45,000"), <<>>, "")]

\* a product id is unique in a feed: the long catalog numbers its rows
Numbered(rows) ==
    [k \in DOMAIN rows |->
        [rows[k] EXCEPT !.id = @ \o <<DigitChars[((k \div 10) % 10) + 1],
                                      DigitChars[(k % 10) + 1]>>]]

Catalogs == { <<>>, TiesCatalog, ShopCatalog, Numbered(LongCatalog) }

CatalogHeader ==
    [cells |-> Append(BaseHeader, Chars("sameday")), sameDayCol |-> 7]

\* what is typed into the search input
SearchValues == { <<>>, Chars("or"), Chars("r"), Chars(" Rose"), Chars("BOX") }

\* the values of data-filter of the filter pills, the pill of the categories aside
FilterPills ==
    {"all", "hot", "under50k", "budget-friendly", "best-value", "under100k",
     "same-day", "premium"}

\* the values of data-category of the category pills
CategoryPills == DOMAIN CategoryFilters

BrowseInit ==
    /\ BrowseIdle
    /\ MatchIdle /\ ItemIdle /\ PrioIdle /\ IngestIdle /\ SessionIdle

\* loadProducts, when the fetch has succeeded
LoadProducts ==
    /\ lastEvent = NotLoaded
    /\ \E rows \in Catalogs :
         allProducts' = prioritizeProducts(
                            parseCSV(FeedText([header |-> CatalogHeader,
                                               rows |-> rows])))
    /\ filteredProducts' = allProducts'
    /\ lastEvent' = [kind |-> "load", products |-> <<>>]
    /\ UNCHANGED <<searchInput, activePill, activeCategory, pillsShown,
                   matchVars, itemVars, prioVars, ingestVars, sessionVars>>

\* e.target.value.toLowerCase().trim()
SearchTerm(value) == trim(toLowerCase(value))

\* the handler of input on the search input
SearchInputEvent ==
    /\ lastEvent # NotLoaded
    /\ \E value \in SearchValues :
         LET searchTerm == SearchTerm(value)
             products   == ProductsToFilter(allProducts,
                                            performSearch(allProducts, searchTerm),
                                            searchTerm)
         IN  /\ searchInput' = value
             /\ filteredProducts' = FilterProducts(products, ActiveFilter(activePill))
             /\ lastEvent' = [kind |-> "search", products |-> products]
    /\ UNCHANGED <<allProducts, activePill, activeCategory, pillsShown,
                   matchVars, itemVars, prioVars, ingestVars, sessionVars>>

\* the handler of a filter pill
FilterPillClick ==
    /\ lastEvent # NotLoaded
    /\ \E filter \in FilterPills :
         LET products == ProductsToFilter(allProducts, filteredProducts,
                                          SearchTerm(searchInput))
         IN  /\ activePill' = filter
             /\ filteredProducts' = FilterProducts(products, ActiveFilter(filter))
             /\ lastEvent' = [kind |-> "filter", products |-> products]
    /\ activeCategory' = ""
    /\ pillsShown' = FALSE
    /\ UNCHANGED <<allProducts, searchInput, matchVars, itemVars, prioVars,
                   ingestVars, sessionVars>>

\* the handler of the pill that opens the categories
CategoriesToggleClick ==
    /\ lastEvent # NotLoaded
    /\ IF activePill = CategoriesFilter
       THEN /\ activePill' = "all"
            /\ pillsShown' = FALSE
            /\ activeCategory' = ""
            /\ filteredProducts' = allProducts
       ELSE /\ activePill' = CategoriesFilter
            /\ pillsShown' = TRUE
            /\ UNCHANGED <<activeCategory, filteredProducts>>
    /\ lastEvent' = [kind |-> "toggle", products |-> <<>>]
    /\ UNCHANGED <<allProducts, searchInput, matchVars, itemVars, prioVars,
                   ingestVars, sessionVars>>

\* the handler of a category pill, which can be clicked while the pills show
CategoryPillClick ==
    /\ lastEvent # NotLoaded
    /\ pillsShown
    /\ \E category \in CategoryPills :
         IF activeCategory = category
         THEN /\ activeCategory' = ""
              /\ filteredProducts' = allProducts
              /\ UNCHANGED activePill
         ELSE /\ activeCategory' = category
              /\ filteredProducts' = filterByCategory(allProducts, category)
              /\ activePill' = CategoriesFilter
    /\ lastEvent' = [kind |-> "category", products |-> allProducts]
    /\ UNCHANGED <<allProducts, searchInput, pillsShown, matchVars, itemVars,
                   prioVars, ingestVars, sessionVars>>

BrowseNext ==
    \/ LoadProducts
    \/ SearchInputEvent
    \/ FilterPillClick
    \/ CategoriesToggleClick
    \/ CategoryPillClick

SpecBrowse == BrowseInit /\ [][BrowseNext]_vars

-----------------------------------------------------------------------------
(* Claims on search, filters and categories *)

\* the query of the page
Query == SearchTerm(searchInput)

\* the greatest weight C11 gives a variant name, 0 with no variant
MaxVariantWeight(p, query) ==
    LET ws == {CascadeWeight(p.variants[k].name, query) : k \in DOMAIN p.variants}
    IN  IF ws = {} THEN 0 ELSE CHOOSE w \in ws : \A v \in ws : v <= w

\* the weight C13 gives a product, times 100: the weights of fuzzyMatch are
\* counted in halves
ClaimedWeight(p, query) ==
    50 * CascadeWeight(p.name, query)
    + 35 * CascadeWeight(p.description, query)
    + 25 * CascadeWeight(p.category, query)
    + 30 * MaxVariantWeight(p, query)

\* the places of a product in a list
Places(list, p) == {k \in DOMAIN list : list[k] = p}

\* C13: for a non-empty query performSearch gives a product the weight
\* fuzzy(name) + 0.7 fuzzy(description) + 0.5 fuzzy(category) + 0.6 max over
\* the variants of fuzzy(variant name); its result holds exactly the catalog
\* products of weight above 0, by descending weight, products of equal
\* weight in their catalog order.
C13_SearchRankedByWeight ==
    (lastEvent.kind = "search" /\ Query # <<>>) =>
        LET result == lastEvent.products
        IN  /\ \A k \in DOMAIN result :
                 /\ Places(allProducts, result[k]) # {}
                 /\ ClaimedWeight(result[k], Query) > 0
            /\ \A k \in DOMAIN allProducts :
                 ClaimedWeight(allProducts[k], Query) > 0
                     => Cardinality(Places(result, allProducts[k])) = 1
            /\ \A i \in DOMAIN result : \A j \in DOMAIN result :
                 i < j =>
                   \/ ClaimedWeight(result[i], Query) > ClaimedWeight(result[j], Query)
                   \/ /\ ClaimedWeight(result[i], Query) = ClaimedWeight(result[j], Query)
                      /\ \A a \in Places(allProducts, result[i]) :
                           \A b \in Places(allProducts, result[j]) : a < b

\* what holds of the ranking: the same with the score as the source computes
\* it, in doubles, in place of the weight
SearchRankedByScore ==
    (lastEvent.kind = "search" /\ Query # <<>>) =>
        LET result == lastEvent.products
        IN  /\ \A k \in DOMAIN result :
                 /\ Places(allProducts, result[k]) # {}
                 /\ Positive(Score(result[k], Query))
            /\ \A k \in DOMAIN allProducts :
                 ClaimedWeight(allProducts[k], Query) > 0
                     => Cardinality(Places(result, allProducts[k])) = 1
            /\ \A i \in DOMAIN result : \A j \in DOMAIN result :
                 i < j =>
                   \/ Greater(Score(result[i], Query), Score(result[j], Query))
                   \/ /\ Score(result[i], Query) = Score(result[j], Query)
                      /\ \A a \in Places(allProducts, result[i]) :
                           \A b \in Places(allProducts, result[j]) : a < b

\* the predicate C15 gives a filter tag
TagHolds(p, tag) ==
    CASE tag = "under50k" -> 0 < p.priceValue /\ p.priceValue < 50000
      [] tag = "same-day" -> p.sameDay = TRUE
      [] tag = "premium" -> p.priceValue >= 120000
      [] tag = "budget-friendly" -> 0 < p.priceValue /\ p.priceValue <= 60000
      [] tag = "best-value" -> 50000 <= p.priceValue /\ p.priceValue <= 90000
      [] tag = "under100k" -> 0 < p.priceValue /\ p.priceValue < 100000
      [] tag = "hot" -> \/ p.category = Chars("Food")
                        \/ p.category = Chars("Flowers")
                        \/ p.category = Chars("Teddy Bears")
      [] tag = "all" -> TRUE

\* the predicate C16 gives a category
CategoryHolds(p, category) ==
    IF category = "trending"
    THEN 40000 < p.priceValue /\ p.priceValue < 100000
    ELSE \E k \in DOMAIN CategoryFilters[category] :
             Occurs(CategoryFilters[category][k],
                    toLowerCase(p.name \o <<Space>> \o p.description))

\* the first n elements of a list
FirstN(list, n) == [k \in 1..(IF Len(list) < n THEN Len(list) ELSE n) |-> list[k]]

\* the list C14 expects: the catalog narrowed by the search, then by the
\* active category or filter
Narrowed == IF Query = <<>> THEN allProducts ELSE performSearch(allProducts, Query)

Composed ==
    IF activeCategory # ""
    THEN LET kept == SelectSeq(Narrowed, LAMBDA p : CategoryHolds(p, activeCategory))
         IN  IF activeCategory = "trending" THEN FirstN(kept, 50) ELSE kept
    ELSE IF activePill \in FilterPills
    THEN SelectSeq(Narrowed, LAMBDA p : TagHolds(p, activePill))
    ELSE Narrowed

\* C14: after every search-input, filter-pill or category-pill event the
\* displayed list is the catalog narrowed by the search first (the whole
\* catalog for the empty query, else the ranked result for the query) and
\* then by the active filter or category.
C14_SearchThenFilter ==
    lastEvent.kind \in {"search", "filter", "category"}
        => filteredProducts = Composed

\* the example of C14 holds: a query that matches the products of 30000 and
\* 130000 followed by a click on under50k leaves the product of 30000
SearchThenUnder50k ==
    (/\ lastEvent.kind = "filter" /\ activePill = "under50k"
     /\ Query = Chars("r") /\ Len(allProducts) = 2
     /\ Len(lastEvent.products) = 2)
        => /\ Len(filteredProducts) = 1
           /\ filteredProducts[1].priceValue = 30000

\* C15: applying a filter tag to a list returns, in the order of the list,
\* exactly the products that satisfy the predicate of the tag; the tag all
\* returns the list unchanged.
C15_FilterKeepsByPredicate ==
    (lastEvent.kind \in {"search", "filter"} /\ activePill \in FilterPills) =>
        /\ filteredProducts =
               SelectSeq(lastEvent.products, LAMBDA p : TagHolds(p, activePill))
        /\ activePill = "all" => filteredProducts = lastEvent.products

\* C15 witness: under50k was applied to a list with a product of price 0, one
\* of 49999 and one of 50000, and kept the one of 49999 alone
C15_Witness ==
    /\ lastEvent.kind = "filter" /\ activePill = "under50k"
    /\ \E k \in DOMAIN lastEvent.products : lastEvent.products[k].priceValue = 0
    /\ \E k \in DOMAIN lastEvent.products : lastEvent.products[k].priceValue = 50000
    /\ Len(filteredProducts) = 1
    /\ filteredProducts[1].priceValue = 49999

\* C16: filterByCategory of a keyword category returns, in catalog order,
\* exactly the products whose lowercased name, space and description contain
\* a keyword of the category; of trending, the first 50 products in catalog
\* order with 40000 < priceValue < 100000, never more than 50.
C16_CategoryKeepsByKeyword ==
    (lastEvent.kind = "category" /\ activeCategory # "") =>
        LET kept == SelectSeq(allProducts, LAMBDA p : CategoryHolds(p, activeCategory))
        IN  IF activeCategory = "trending"
            THEN /\ filteredProducts = FirstN(kept, 50)
                 /\ Len(filteredProducts) <= 50
            ELSE filteredProducts = kept

\* C16 witness: trending on a catalog with more than 50 products in the band
\* returned 50 of them
C16_Witness ==
    /\ lastEvent.kind = "category" /\ activeCategory = "trending"
    /\ Len(SelectSeq(allProducts, LAMBDA p : CategoryHolds(p, "trending"))) > 50
    /\ Len(filteredProducts) = 50

\* the keyword categories at work: valentine on the shop kept the two
\* products with rose in their name and dropped the six without a keyword
KeywordCategoryAtWork ==
    (/\ lastEvent.kind = "category" /\ activeCategory = "valentine"
     /\ Len(allProducts) = 8)
        => Len(filteredProducts) = 2

\* C25: search, filter-pill and category events leave allProducts as it is,
\* in content and in order, and after each of them every element of
\* filteredProducts is a product of allProducts; only a feed load replaces
\* allProducts.
C25_EventsLeaveCatalog ==
    /\ [](\A k \in DOMAIN filteredProducts :
              \E j \in DOMAIN allProducts : filteredProducts[k] = allProducts[j])
    /\ [][\/ allProducts' = allProducts
          \/ lastEvent'.kind = "load"]_vars

\* C25 witness: a search gave a list that is not the catalog, led by another
\* product than the catalog is
C25_Witness ==
    /\ lastEvent.kind = "search"
    /\ Len(allProducts) >= 2 /\ Len(filteredProducts) >= 2
    /\ filteredProducts # allProducts
    /\ filteredProducts[1] # allProducts[1]

\* C28: with a non-empty query, a click on a filter pill after a click on
\* another filter pill that filtered the search result gives the search
\* result narrowed by the clicked filter alone, the whole search result for
\* the pill all, whatever the filter before was.
C28_FilterAfterFilter ==
    [][(/\ lastEvent.kind = "filter" /\ lastEvent'.kind = "filter"
        /\ Query # <<>>
        /\ lastEvent.products = performSearch(allProducts, Query))
       => filteredProducts' =
              SelectSeq(performSearch(allProducts, Query),
                        LAMBDA p : TagHolds(p, activePill'))]_vars

-----------------------------------------------------------------------------
(* SpecItem: categorizeProduct on names made of words *)

\* A word of a name as authored, and the rule of categorizeProduct that the
\* word alone is meant for, counted in source order, 0 for none
Word(text, rule) == [text |-> Chars(text), rule |-> rule]

Words ==
    { Word("Ring", 1), Word("Teddy", 2), Word("Roses", 3), Word("Gift", 0),
      Word("Box", 0), Word("Pizza", 5), Word("Cake", 0), Word("Mug", 7),
      Word("Santa", 8), Word("Watch", 9), Word("BMW", 10), Word("Army", 11),
      Word("Brief", 12), Word("Wine", 13), Word("Zed", 0) }

\* the most words of a name
MaxNameWords == 2

\* the name: the words with a space between them
NameOf(words) == Join([k \in DOMAIN words |-> words[k].text], Space)

ItemInit ==
    /\ itemWords = <<>> /\ itemCategory = <<>>
    /\ MatchIdle /\ PrioIdle /\ BrowseIdle /\ IngestIdle /\ SessionIdle

AddWord ==
    /\ itemCategory = <<>>
    /\ Len(itemWords) < MaxNameWords
    /\ \E w \in Words : itemWords' = Append(itemWords, w)
    /\ UNCHANGED <<itemCategory, matchVars, prioVars, browseVars, ingestVars,
                   sessionVars>>

CallCategorizeProduct ==
    /\ itemCategory = <<>>
    /\ itemCategory' = <<categorizeProduct(NameOf(itemWords))>>
    /\ UNCHANGED <<itemWords, matchVars, prioVars, browseVars, ingestVars,
                   sessionVars>>

ItemNext == AddWord \/ CallCategorizeProduct

SpecItem == ItemInit /\ [][ItemNext]_vars

-----------------------------------------------------------------------------
(* Claims on categorizeProduct *)

\* the categories of the 13 rules in the order C17 gives
RuleCategories ==
    << Chars("Jewelry"), Chars("Teddy Bears"), Chars("Flowers"),
       Chars("Gift Baskets"), Chars("Food"), Chars("Wine & Treats"),
       Chars("Custom Items"), Chars("Christmas"), Chars("Watches"),
       Chars("Car Keys"), Chars("Military"), Chars("Underwear"),
       Chars("Wine & Treats") >>

\* word a stands in the name before word b
Before(words, a, b) ==
    \E i \in DOMAIN words : \E j \in DOMAIN words :
        i < j /\ words[i].text = Chars(a) /\ words[j].text = Chars(b)

\* the name has the two words of a gift box next to each other
GiftBox(words) ==
    \E i \in DOMAIN words :
        /\ i + 1 \in DOMAIN words
        /\ words[i].text = Chars("Gift") /\ words[i + 1].text = Chars("Box")

\* the name has cake and later wine, or wine and later cake or roses
WineCombined(words) ==
    \/ Before(words, "Cake", "Wine")
    \/ Before(words, "Wine", "Cake")
    \/ Before(words, "Wine", "Roses")

\* the rules a name made of these words is meant to match
RulesMeant(words) ==
    ({words[k].rule : k \in DOMAIN words} \ {0})
    \cup (IF GiftBox(words) THEN {4} ELSE {})
    \cup (IF WineCombined(words) THEN {6} ELSE {})

\* C17: categorizeProduct returns the category of the first rule, in the
\* order jewelry, teddy, flowers, gift baskets, food, wine with cake, custom
\* items, christmas, watches, car keys, military, underwear, wine or
\* chocolate, whose pattern occurs in the lowercased name, and Other when
\* none does; the result is one of the fixed category names.
C17_FirstRuleWins ==
    itemCategory # <<>> =>
        LET meant == RulesMeant(itemWords)
        IN  /\ itemCategory[1] =
                 IF meant = {} THEN Chars("Other")
                 ELSE RuleCategories[CHOOSE r \in meant : \A q \in meant : r <= q]
            /\ itemCategory[1] \in Range(RuleCategories) \cup {Chars("Other")}

\* C17 witness: a name whose second word is of an earlier rule than its
\* first word was given the category of the second word
C17_Witness ==
    /\ itemCategory = <<Chars("Jewelry")>>
    /\ Len(itemWords) = 2
    /\ itemWords[1].rule = 5 /\ itemWords[2].rule = 1

\* C18: a name that matches both the combined wine pattern and the pattern
\* of Flowers is given Wine & Treats, not Flowers.
C18_WineBeforeFlowers ==
    (/\ itemCategory # <<>>
     /\ WineCombined(itemWords)
     /\ \E k \in DOMAIN itemWords : itemWords[k].rule = 3)
        => itemCategory[1] = Chars("Wine & Treats")

-----------------------------------------------------------------------------
(* SpecPrio: prioritizeProducts on lists of products as parseCSV builds them *)

\* the kinds of products of these lists: the two pinned ones, one with a
\* priority keyword in its name, one with a priority keyword in its
\* description, one without a priority keyword
Kinds == {"first", "second", "named", "described", "plain"}

\* the product of a kind that parseCSV builds from the k-th row of a feed
ProductOf(kind, k) ==
    LET name == CASE kind = "first"  -> Chars("Hamper")
                  [] kind = "second" -> Chars("Candle")
                  [] kind = "named"  -> Chars("Gold Ring")
                  [] OTHER           -> Chars("Box")
    IN  [id          |-> k,
         productId   |-> CASE kind = "first"  -> FeaturedIds[1]
                           [] kind = "second" -> FeaturedIds[2]
                           [] OTHER -> <<"K", DigitChars[((k \div 10) % 10) + 1],
                                         DigitChars[(k % 10) + 1]>>,
         name        |-> name,
         description |-> IF kind = "described" THEN Chars("with PIZZA") ELSE <<>>,
         price       |-> Price("1,000"),
         priceValue  |-> 1000,
         variants    |-> <<>>,
         category    |-> categorizeProduct(name),
         imageUrl    |-> ImageFile,
         sameDay     |-> FALSE]

\* the most products listed one by one, and the length of the stretch of
\* products, plain and described in turn, that makes a list a long one
MaxListed == 3
PadLength == 10

\* the products of the list that were listed one by one
Listed == Len(prioInput) - (IF Len(prioInput) >= PadLength THEN PadLength ELSE 0)

PrioInit ==
    /\ prioInput = <<>> /\ prioOutput = <<>>
    /\ MatchIdle /\ ItemIdle /\ BrowseIdle /\ IngestIdle /\ SessionIdle

ListProduct ==
    /\ prioOutput = <<>>
    /\ Listed < MaxListed
    /\ \E kind \in Kinds \ {"described"} :
         prioInput' = Append(prioInput, ProductOf(kind, Len(prioInput) + 1))
    /\ UNCHANGED <<prioOutput, matchVars, itemVars, browseVars, ingestVars,
                   sessionVars>>

ListStretch ==
    /\ prioOutput = <<>>
    /\ Len(prioInput) < PadLength
    /\ prioInput' = prioInput \o
           [k \in 1..PadLength |->
               ProductOf(IF k % 2 = 1 THEN "plain" ELSE "described",
                         Len(prioInput) + k)]
    /\ UNCHANGED <<prioOutput, matchVars, itemVars, browseVars, ingestVars,
                   sessionVars>>

CallPrioritizeProducts ==
    /\ prioOutput = <<>>
    /\ prioOutput' = <<prioritizeProducts(prioInput)>>
    /\ UNCHANGED <<prioInput, matchVars, itemVars, browseVars, ingestVars,
                   sessionVars>>

PrioNext == ListProduct \/ ListStretch \/ CallPrioritizeProducts

SpecPrio == PrioInit /\ [][PrioNext]_vars

-----------------------------------------------------------------------------
(* Claims on prioritizeProducts *)

Pinned1 == Chars("PROD-1487")
Pinned2 == Chars("PROD-1488")

IsPinned(p) == p.productId \in {Pinned1, Pinned2}
Present(id) == \E k \in DOMAIN prioInput : prioInput[k].productId = id

\* the products that are not pinned, of the input and of the result
RestOfInput  == SelectSeq(prioInput, LAMBDA p : ~IsPinned(p))
RestOfOutput == SelectSeq(prioOutput[1], LAMBDA p : ~IsPinned(p))

\* C19: with both pinned identifiers in the input, the first pinned product
\* is at index 0 of the result and the second at index min(10, r) + 1, r
\* being the number of remaining products; at index 11 with 10 other
\* products or more. (Index i is element i + 1 of the sequence.)
C19_PinnedPositions ==
    (prioOutput # <<>> /\ Present(Pinned1) /\ Present(Pinned2)) =>
        LET r == Len(RestOfInput)
            m == IF r < 10 THEN r ELSE 10
        IN  /\ prioOutput[1][0 + 1].productId = Pinned1
            /\ prioOutput[1][(m + 1) + 1].productId = Pinned2
            /\ r >= 10 => prioOutput[1][11 + 1].productId = Pinned2

\* C19 witness: a list with both pinned products and more than 10 others
\* was prioritized
C19_Witness ==
    /\ prioOutput # <<>> /\ Present(Pinned1) /\ Present(Pinned2)
    /\ Len(RestOfInput) > 10
    /\ prioOutput[1][12].productId = Pinned2

\* the name and description of a product hold a priority keyword
HasKeyword(p) ==
    \E k \in DOMAIN PriorityKeywords :
        Occurs(PriorityKeywords[k],
               toLowerCase(p.name \o <<Space>> \o p.description))

\* C20: leaving the pinned products aside, every product with a priority
\* keyword in its lowercased name, space and description comes before every
\* product without one, and each of the two groups keeps its input order;
\* with exactly one pinned identifier present that product is at index 0
\* before this partition, with none the result is the partition alone.
C20_StablePartition ==
    prioOutput # <<>> =>
        LET partition == SelectSeq(RestOfInput, HasKeyword)
                         \o SelectSeq(RestOfInput, LAMBDA p : ~HasKeyword(p))
        IN  /\ \A i \in DOMAIN RestOfOutput : \A j \in DOMAIN RestOfOutput :
                 (HasKeyword(RestOfOutput[j]) /\ ~HasKeyword(RestOfOutput[i]))
                     => j < i
            /\ SelectSeq(RestOfOutput, HasKeyword) = SelectSeq(RestOfInput, HasKeyword)
            /\ SelectSeq(RestOfOutput, LAMBDA p : ~HasKeyword(p))
                   = SelectSeq(RestOfInput, LAMBDA p : ~HasKeyword(p))
            /\ (Present(Pinned1) /\ ~Present(Pinned2)) =>
                   /\ prioOutput[1][1].productId = Pinned1
                   /\ Tail(prioOutput[1]) = partition
            /\ (Present(Pinned2) /\ ~Present(Pinned1)) =>
                   /\ prioOutput[1][1].productId = Pinned2
                   /\ Tail(prioOutput[1]) = partition
            /\ (~Present(Pinned1) /\ ~Present(Pinned2)) =>
                   prioOutput[1] = partition

\* C20 witness: of a list without a pinned product, a product with a keyword
\* that stood behind two products without one was moved before them
C20_Witness ==
    /\ prioOutput # <<>>
    /\ ~Present(Pinned1) /\ ~Present(Pinned2)
    /\ Len(prioInput) = 3
    /\ ~HasKeyword(prioInput[1]) /\ ~HasKeyword(prioInput[2])
    /\ HasKeyword(prioInput[3])
    /\ prioOutput[1] = <<prioInput[3], prioInput[1], prioInput[2]>>

\* the number of elements of list that are product p
Count(list, p) == Cardinality({k \in DOMAIN list : list[k] = p})

\* C27: for every input list, lists in which several products carry the same
\* pinned identifier included, prioritizeProducts returns a permutation of
\* its input: the same length, and every input product exactly once.
C27_Permutation ==
    prioOutput # <<>> =>
        /\ Len(prioOutput[1]) = Len(prioInput)
        /\ \A k \in DOMAIN prioInput : Count(prioOutput[1], prioInput[k]) = 1

\* the rest of C27 holds: with no pinned identifier carried by two products
\* the result is a permutation of the input
PermutationOfDistinct ==
    (/\ prioOutput # <<>>
     /\ \A i \in DOMAIN prioInput : \A j \in DOMAIN prioInput :
            (i # j /\ IsPinned(prioInput[i]))
                => prioInput[i].productId # prioInput[j].productId)
        => /\ Len(prioOutput[1]) = Len(prioInput)
           /\ \A k \in DOMAIN prioInput : Count(prioOutput[1], prioInput[k]) = 1

-----------------------------------------------------------------------------
(* SpecBadge: getProductBadge on products of every category and price band *)

\* the categories categorizeProduct gives
Categories ==
    {CategoryRules[k].category : k \in DOMAIN CategoryRules} \cup {OtherCategory}

\* price values at and around the limits of the badges
BadgePrices ==
    {-5, 0, 1, 49999, 50000, 50001, 99999, 100000, 100001, 120000, 149999,
     150000, 150001}

BadgeInit ==
    /\ badgeProduct = <<>> /\ badgeShown = <<>>
    /\ CartIdle /\ LoadIdle /\ ViewIdle /\ IngestIdle

\* a product of the catalog is about to be rendered
TakeProduct ==
    /\ badgeProduct = <<>>
    /\ \E v \in BadgePrices : \E c \in Categories : \E d \in BOOLEAN :
         badgeProduct' = <<[ProductOf("plain", 1) EXCEPT !.priceValue = v,
                                                         !.category = c,
                                                         !.sameDay = d]>>
    /\ UNCHANGED <<badgeShown, cartVars, loadVars, viewVars, ingestVars>>

\* generateCardHTML: const badge = getProductBadge(product)
CallGetProductBadge ==
    /\ badgeProduct # <<>> /\ badgeShown = <<>>
    /\ badgeShown' = <<getProductBadge(badgeProduct[1])>>
    /\ UNCHANGED <<badgeProduct, cartVars, loadVars, viewVars, ingestVars>>

BadgeNext == TakeProduct \/ CallGetProductBadge

SpecBadge == BadgeInit /\ [][BadgeNext]_vars

-----------------------------------------------------------------------------
(* Claims on getProductBadge *)

\* the badge C23 gives for a priceValue and a category
BadgeFor(v, c) ==
    CASE v < 50000                   -> "Budget-Friendly"
      [] 50000 <= v /\ v <= 100000   -> "Best Value"
      [] 100000 < v /\ v <= 150000   -> IF c = Chars("Food") THEN "Hot" ELSE ""
      [] v > 150000                  -> "Premium"

\* C23: getProductBadge returns the one badge of the first rule that
\* matches: Budget-Friendly below 50000, Best Value from 50000 to 100000,
\* Premium above 150000, otherwise Hot for the category Food, otherwise
\* none; the badge follows from priceValue and category alone and is no
\* field of the product.
C23_BadgeByFirstRule ==
    badgeShown # <<>> =>
        /\ badgeShown[1] = BadgeFor(badgeProduct[1].priceValue,
                                    badgeProduct[1].category)
        /\ badgeShown[1] \in {"Budget-Friendly", "Best Value", "Premium", "Hot", ""}
        /\ "badge" \notin DOMAIN badgeProduct[1]

\* C23 witness: a product of the category Food at 100000 was given Best
\* Value, the badge of the rule that comes before the rule of Food
C23_Witness ==
    /\ badgeShown = <<"Best Value">>
    /\ badgeProduct[1].category = Chars("Food")
    /\ badgeProduct[1].priceValue = 100000

\* the rule of Food and the product without a badge are met too
HotAndNone ==
    badgeShown # <<>> =>
        /\ (badgeProduct[1].priceValue = 150000
              /\ badgeProduct[1].category = Chars("Food")) => badgeShown[1] = "Hot"
        /\ (badgeProduct[1].priceValue = 120000
              /\ badgeProduct[1].category = OtherCategory) => badgeShown[1] = ""

-----------------------------------------------------------------------------
(* SpecCart: the cart of a page whose catalog is loaded *)

\* a second variant named S, at another price
S1000 == Entry(<<"S">>, <<Naira, "1", Comma, "0", "0", "0">>, 1000, TRUE)

\* the feed of the catalog: a product without variants and a product with
\* three variants, two of them of the same name
CartFeed ==
    [header |-> CatalogHeader,
     rows   |-> << Row(<<"P", "1">>, N500, <<>>, <<>>, 7),
                   Row(<<"P", "2">>, <<>>, <<S2000, L1000, S1000>>, <<>>, 7) >>]

CartCatalog == prioritizeProducts(parseCSV(FeedText(CartFeed)))

\* the greatest qty an item is brought to, and the last millisecond at
\* which the cart is changed
MaxQty == 3
MaxNow == 2

CartInit ==
    /\ cart = <<>> /\ now = 0 /\ cartEvent = NoCartEvent
    /\ allProducts = CartCatalog /\ filteredProducts = CartCatalog
    /\ searchInput = <<>> /\ activePill = "all" /\ activeCategory = ""
    /\ pillsShown = FALSE
    /\ lastEvent = [kind |-> "load", products |-> <<>>]
    /\ BadgeIdle /\ LoadIdle /\ MatchIdle /\ ItemIdle /\ PrioIdle /\ IngestIdle

\* a millisecond passes
TimePasses ==
    /\ now < MaxNow
    /\ now' = now + 1
    /\ UNCHANGED <<cart, cartEvent, badgeVars, loadVars, viewVars, ingestVars>>

\* the variants addToCart is called with for a product: null for a product
\* without variants, else the variant selected (handleAddToCart, the handler
\* of btnOrder and addToCartFromDetail)
VariantsFor(product) ==
    IF product.variants = <<>> THEN {<<>>}
    ELSE {<<product.variants[k]>> : k \in DOMAIN product.variants}

\* the qty of the item addToCart would increment, 0 without one
QtyOf(items, product, variant) ==
    LET k == ExistingIdx(items, product, variant, 1)
    IN  IF k = 0 THEN 0 ELSE items[k].qty

AddToCart ==
    /\ \E j \in DOMAIN allProducts : \E variant \in VariantsFor(allProducts[j]) :
         /\ QtyOf(cart, allProducts[j], variant) < MaxQty
         /\ cart' = addToCart(cart, allProducts[j], variant, now)
         /\ cartEvent' = [kind |-> "add", product |-> allProducts[j].id,
                          variant |-> IF variant = <<>> THEN <<>>
                                      ELSE variant[1].name,
                          cartItemId |-> 0, delta |-> 0]
    /\ UNCHANGED <<now, badgeVars, loadVars, viewVars, ingestVars>>

\* the buttons + and - of an item of the cart
UpdateQty ==
    /\ \E k \in DOMAIN cart : \E delta \in {1, -1} :
         /\ cart[FindItem(cart, cart[k].id, 1)].qty + delta <= MaxQty
         /\ cart' = updateQty(cart, cart[k].id, delta)
         /\ cartEvent' = [kind |-> "update", product |-> 0, variant |-> <<>>,
                          cartItemId |-> cart[k].id, delta |-> delta]
    /\ UNCHANGED <<now, badgeVars, loadVars, viewVars, ingestVars>>

\* the button that removes an item of the cart
RemoveFromCart ==
    /\ \E k \in DOMAIN cart :
         /\ cart' = removeFromCart(cart, cart[k].id)
         /\ cartEvent' = [kind |-> "remove", product |-> 0, variant |-> <<>>,
                          cartItemId |-> cart[k].id, delta |-> 0]
    /\ UNCHANGED <<now, badgeVars, loadVars, viewVars, ingestVars>>

ClearCart ==
    /\ cart # <<>>
    /\ cart' = clearCart
    /\ cartEvent' = [kind |-> "clear", product |-> 0, variant |-> <<>>,
                     cartItemId |-> 0, delta |-> 0]
    /\ UNCHANGED <<now, badgeVars, loadVars, viewVars, ingestVars>>

CartNext ==
    \/ TimePasses
    \/ AddToCart
    \/ UpdateQty
    \/ RemoveFromCart
    \/ ClearCart

SpecCart == CartInit /\ [][CartNext]_vars

-----------------------------------------------------------------------------
(* Claims on the cart *)

\* the product id and the variant name of an item, <<>> without a variant
PairOf(item) ==
    <<item.product.id, IF item.variant = <<>> THEN <<>> ELSE <<item.variant[1].name>> >>

\* the items of a cart for a product id and a variant name
ItemsOf(items, pair) == {k \in DOMAIN items : PairOf(items[k]) = pair}

\* C30: from the empty cart on, after any addToCart, updateQty by 1 or -1,
\* removeFromCart and clearCart, every item has a qty of 1 or more and no two
\* items have the same product id and variant name; adding a product and
\* variant the cart holds increments the qty of its item and adds no item,
\* and an item whose qty would drop below 1 is removed.
C30_CartWellFormed ==
    /\ [](/\ \A k \in DOMAIN cart : cart[k].qty >= 1
          /\ \A k \in DOMAIN cart : ItemsOf(cart, PairOf(cart[k])) = {k})
    /\ [][/\ (now' = now /\ cartEvent'.kind = "add") =>
               LET pair == <<cartEvent'.product,
                             IF cartEvent'.variant = <<>> THEN <<>>
                             ELSE <<cartEvent'.variant>> >>
               IN  IF ItemsOf(cart, pair) # {}
                   THEN /\ Len(cart') = Len(cart)
                        /\ \A k \in ItemsOf(cart, pair) :
                               cart'[k].qty = cart[k].qty + 1
                   ELSE /\ Len(cart') = Len(cart) + 1
                        /\ PairOf(cart'[Len(cart')]) = pair
                        /\ cart'[Len(cart')].qty = 1
          /\ (now' = now /\ cartEvent'.kind = "update" /\ cartEvent'.delta = -1) =>
               \A k \in DOMAIN cart :
                   (cart[k].id = cartEvent'.cartItemId /\ cart[k].qty = 1
                      /\ \A j \in 1..(k - 1) : cart[j].id # cart[k].id)
                       => ItemsOf(cart', PairOf(cart[k])) = {}]_vars

\* C30 witness: the cart holds an item of qty 2 or more for the variant S of
\* the second product, added once for each of its two variants named S, and
\* an item of the first product added in the same millisecond
C30_Witness ==
    /\ Len(cart) = 2
    /\ cart[1].variant # <<>> /\ cart[1].variant[1].name = <<"S">>
    /\ cart[1].qty >= 2
    /\ cart[2].variant = <<>>
    /\ cart[2].id = cart[1].id
    /\ cartEvent.kind = "update"

-----------------------------------------------------------------------------
(* SpecLoad: the loading of the catalog by the main view and by the staff   *)
(* view, each in its own page; SpecLoadFair adds that a fetch completes and  *)
(* that a timer fires.                                                       *)

\* the feeds the server answers with
LoadFeeds == { <<>>, TiesCatalog }

\* the most calls of loadProducts(0) of the main view
MaxSequences == 2

LoadInit ==
    /\ mainLoad = MainNotOpened /\ staffLoad = StaffNotOpened
    /\ BadgeIdle /\ CartIdle /\ ViewIdle /\ IngestIdle

\* app.js: loadProducts() at the end of the script
OpenMainView ==
    /\ mainLoad.phase = "idle"
    /\ mainLoad' = StartLoad(mainLoad)
    /\ UNCHANGED <<staffLoad, badgeVars, cartVars, viewVars, ingestVars>>

\* what lines 47 and 48 of app.js make of these feeds
LoadedCatalogs ==
    { prioritizeProducts(parseCSV(FeedText([header |-> CatalogHeader,
                                            rows |-> rows]))) : rows \in LoadFeeds }

\* allProducts and filteredProducts as lines 47 to 50 of app.js assign them
CatalogAssigned ==
    /\ allProducts' \in LoadedCatalogs
    /\ filteredProducts' = allProducts'

\* the try block of loadProducts runs to its end
MainAttemptSucceeds ==
    /\ mainLoad.phase = "fetching"
    /\ CatalogAssigned
    /\ lastEvent' = [kind |-> "load", products |-> <<>>]
    /\ mainLoad' = LoadDone(mainLoad)
    /\ UNCHANGED <<searchInput, activePill, activeCategory, pillsShown,
                   matchVars, itemVars, prioVars,
                   staffLoad, badgeVars, cartVars, ingestVars>>

\* the try block of loadProducts throws: before the catalog is assigned, or
\* after it
MainAttemptFails ==
    /\ mainLoad.phase = "fetching"
    /\ \E failure \in Failures :
         /\ mainLoad' = LoadCatch(mainLoad, failure)
         /\ IF failure = "later"
            THEN CatalogAssigned
            ELSE UNCHANGED <<allProducts, filteredProducts>>
    /\ UNCHANGED <<searchInput, activePill, activeCategory, pillsShown, lastEvent,
                   matchVars, itemVars, prioVars,
                   staffLoad, badgeVars, cartVars, ingestVars>>

\* the timer of setTimeout fires
MainTimerFires ==
    /\ mainLoad.phase = "waiting"
    /\ mainLoad' = LoadRetry(mainLoad)
    /\ UNCHANGED <<staffLoad, badgeVars, cartVars, viewVars, ingestVars>>

\* the button Try Again of the error state
MainRetryClick ==
    /\ mainLoad.phase = "error" /\ mainLoad.trigger
    /\ mainLoad.sequences < MaxSequences
    /\ mainLoad' = StartLoad(mainLoad)
    /\ UNCHANGED <<staffLoad, badgeVars, cartVars, viewVars, ingestVars>>

\* staff.js: loadProducts() at the end of the script
OpenStaffView ==
    /\ staffLoad.phase = "idle"
    /\ staffLoad' = [staffLoad EXCEPT !.phase = "fetching"]
    /\ UNCHANGED <<mainLoad, badgeVars, cartVars, viewVars, ingestVars>>

StaffFetchSucceeds ==
    /\ staffLoad.phase = "fetching"
    /\ staffLoad' = [staffLoad EXCEPT !.phase = "loaded"]
    /\ UNCHANGED <<mainLoad, badgeVars, cartVars, viewVars, ingestVars>>

StaffFetchFails ==
    /\ staffLoad.phase = "fetching"
    /\ staffLoad' = StaffCatch(staffLoad)
    /\ UNCHANGED <<mainLoad, badgeVars, cartVars, viewVars, ingestVars>>

LoadNext ==
    \/ OpenMainView
    \/ MainAttemptSucceeds
    \/ MainAttemptFails
    \/ MainTimerFires
    \/ MainRetryClick
    \/ OpenStaffView
    \/ StaffFetchSucceeds
    \/ StaffFetchFails

SpecLoad == LoadInit /\ [][LoadNext]_vars

\* every fetch completes, and every timer fires
SpecLoadFair ==
    /\ SpecLoad
    /\ WF_vars(MainAttemptSucceeds \/ MainAttemptFails)
    /\ WF_vars(MainTimerFires)
    /\ WF_vars(StaffFetchSucceeds \/ StaffFetchFails)

-----------------------------------------------------------------------------
(* Claims on the loading *)

\* C21: a load sequence started by loadProducts(0) makes at most 3 retries
\* after its first fetch, so at most 4 fetches; a retry is scheduled only
\* after a failed attempt, the k-th with a delay of k * 2000 ms, and none is
\* scheduled after an attempt that succeeded or after the last attempt
\* allowed has failed.
C21_BoundedRetries ==
    /\ [](/\ mainLoad.retries <= 3 /\ mainLoad.fetches <= 4
          /\ mainLoad.fetches <= mainLoad.retries + 1
          /\ mainLoad.phase \in {"loaded", "error"} => mainLoad.delay = 0
          /\ mainLoad.phase = "error" => mainLoad.fetches = 4)
    /\ [][/\ mainLoad'.retries = mainLoad.retries + 1 =>
               /\ mainLoad.phase = "fetching"
               /\ mainLoad'.failure # "none"
               /\ mainLoad'.delay = mainLoad'.retries * 2000
          /\ (mainLoad'.delay # 0 /\ mainLoad'.delay # mainLoad.delay) =>
               mainLoad'.retries = mainLoad.retries + 1
          /\ (mainLoad.phase = "fetching" /\ mainLoad'.phase = "loaded") =>
               (mainLoad'.retries = mainLoad.retries /\ mainLoad'.delay = 0)]_vars

\* C21 witness: the fourth fetch of a sequence has failed, after retries with
\* growing delays, and the error state shows without a timer
C21_Witness ==
    /\ mainLoad.phase = "error"
    /\ mainLoad.fetches = 4 /\ mainLoad.retries = 3
    /\ mainLoad.delay = 0

\* the third retry waits 6000 ms
ThirdRetryDelay ==
    (mainLoad.phase = "waiting" /\ mainLoad.retries = 3) => mainLoad.delay = 6000

\* C22: if every fetch completes and every timer fires, every load sequence
\* ends with the catalog loaded, or after the last attempt allowed in the
\* error state that offers a retry trigger, whose use starts a new sequence
\* at retry count 0; a failed load is never left in a state that is neither
\* loaded nor retrying nor the error state with its trigger, in the main view
\* and in the staff view.
C22_LoadEndsOrOffersRetry ==
    /\ (mainLoad.phase \in {"fetching", "waiting"})
           ~> (mainLoad.phase \in {"loaded", "error"})
    /\ (staffLoad.phase = "fetching") ~> (staffLoad.phase \in {"loaded", "failed"})
    /\ [](/\ mainLoad.phase = "error" => mainLoad.trigger
          /\ staffLoad.phase = "failed" => staffLoad.trigger)
    /\ [][mainLoad'.sequences = mainLoad.sequences + 1 =>
              (mainLoad'.retryCount = 0 /\ mainLoad'.phase = "fetching")]_vars

\* C22 holds of the main view
MainLoadEndsOrOffersRetry ==
    /\ (mainLoad.phase \in {"fetching", "waiting"})
           ~> (mainLoad.phase \in {"loaded", "error"})
    /\ [](mainLoad.phase = "error" => (mainLoad.trigger /\ mainLoad.fetches = 4))
    /\ [][mainLoad'.sequences = mainLoad.sequences + 1 =>
              (mainLoad'.retryCount = 0 /\ mainLoad'.phase = "fetching")]_vars

====
